---- MODULE Spec2Model ----
(***************************************************************************)
(* Dataset identity and reference resolution: the dscache (the serialized  *)
(* index of src/dscache/dscache.go), its event handler, and the logbook    *)
(* write operations that publish the events the handler consumes.          *)
(*                                                                         *)
(* Strings are TLA+ strings, "" is Go's empty string.  A flatbuffer root   *)
(* is the record [set, Users, Refs]; set = FALSE is the nil root.          *)
(***************************************************************************)
EXTENDS Integers, Sequences, FiniteSets, TLC

VARIABLES
    book,                \* the logbook: one record per dataset log
    Root,                \* Dscache.Root, the decoded flatbuffer (Buffer is its bytes)
    CreateNewEnabled,    \* Dscache.CreateNewEnabled
    Filename,            \* Dscache.Filename
    file,                \* what the file Filename names holds on disk
    ProfileIDToUsername, \* Dscache.ProfileIDToUsername, the memo of ensureProToUserMap
    last,                \* the last call: its operation, its input and what it returned
    reader,              \* a ResolveRef call in progress on another goroutine
    peers,               \* the logbooks of the other nodes: the registry and a second node
    workflows,           \* the workflow store
    listener,            \* RuntimeListener: the active triggers it listens for
    pending,             \* the handler invocations that read the root and have not assigned theirs
    shutdown             \* MemRepo: the filesystem's Done, doneErr, doneWg, doneCh and its goroutine

\* the state of the automation, of handlers in flight and of the shutdown
services == <<listener, pending, shutdown>>

vars == <<book, Root, CreateNewEnabled, Filename, file, ProfileIDToUsername, last, reader,
          peers, workflows, services>>

\* the state outside the node's logbook and dscache
outside == <<peers, workflows, services>>

----------------------------------------------------------------------------
(* Bounds of the model *)

\* number of dataset logs the logbook can create
NumInitIDs == 2
\* number of commits one dataset log can take
MaxCommits == 1
\* number of resolvers a sequential resolver is composed of
MaxResolvers == 2
\* number of handler invocations that can be in flight at once
MaxPending == 2
\* number of IDs the workflow store can hand out
MaxWorkflows == 3
\* number of instants the callers of the workflow store read from the clock
MaxCreated == 4

----------------------------------------------------------------------------
(* Program constants and the finite domains the inputs are drawn from *)

lengthOfProfileID == 46

InitIDNames == <<"I1", "I2", "I3", "I4", "I5", "I6">>
InitIDs == {InitIDNames[i] : i \in 1..NumInitIDs}

Usernames == {"alice", "bob", "eve"}
\* the profiles of the profile store, in the order a scan lists them
UserOrder == <<"alice", "bob">>

\* alice and bob have well-formed base58 profile IDs, eve a malformed one
ProfileIDOf(u) ==
    CASE u = "alice" -> "QmZePf5LeXow3RW5U1AgEiNbW46YnRGhZ7HPvm1UmPFPwt"
      [] u = "bob"   -> "QmSyDX5LYTiwQi861F5NAwdHrrnd1iRGsoEvCyzQMUyZ4W"
      [] OTHER       -> "QmBadProfile"

Names == {"world_bank", "wbp"}

HeadPaths == <<"/hash/p1", "/hash/p2", "/hash/p3", "/hash/p4">>

LinkDir == "/work/dir"

\* errors
NoErr == "nil"
ErrRefNotFound == "ErrRefNotFound"
ErrNoDscache == "ErrNoDscache"
ErrInvalidProfileID == "ErrInvalidProfileID"
ErrWriteFile == "ErrWriteFile"
Panic == "panic"

----------------------------------------------------------------------------
(* The flatbuffer tables *)

NilRoot == [set |-> FALSE, Users |-> <<>>, Refs |-> <<>>]

UserAssoc(username, profileID) == [Username |-> username, ProfileID |-> profileID]

\* a table decoded from bytes that are no RefEntryInfo
GarbageEntry ==
    [InitID |-> "\\x00", ProfileID |-> "\\x00", TopIndex |-> 7, CursorIndex |-> 7,
     PrettyName |-> "\\x00", MetaTitle |-> "\\x00", BodySize |-> 7, BodyRows |-> 7,
     NumErrors |-> 7, CommitTime |-> 7, HeadRef |-> "\\x00", FsiPath |-> "\\x00"]

\* the zero value of time.Time read as seconds and nanoseconds
Time(sec, nsec) == [sec |-> sec, nsec |-> nsec]
Unix(t) == t.sec

\* the zero value of dsref.VersionInfo
ZeroVersionInfo ==
    [InitID |-> "", Username |-> "", ProfileID |-> "", Name |-> "", Path |-> "",
     MetaTitle |-> "", BodySize |-> 0, BodyRows |-> 0, NumErrors |-> 0,
     CommitTime |-> Time(0, 0), CommitCount |-> 0, FSIPath |-> ""]

\* the zero value of dsref.Ref
ZeroRef == [Username |-> "", ProfileID |-> "", Name |-> "", InitID |-> "", Path |-> ""]

----------------------------------------------------------------------------
(* Reading the cache *)

\* the first of the indexes that pass a test, 0 when none does: the position
\* at which a "for i := 0; i < n; i++ { if ... }" loop stops
FirstIndex(passing) ==
    IF passing = {} THEN 0
    ELSE CHOOSE i \in passing : \A j \in passing : i <= j

\* IsEmpty without its nil check
IsEmpty_NoNilCheck(recvNil, root) == ~root.set

\* Dscache.IsEmpty; recvNil says the receiver is a nil *Dscache
IsEmpty(recvNil, root) == recvNil \/ ~root.set

\* convertEntryToVersionInfo: FsiPath is not among the fields it copies, and
\* CommitTime comes back as time.Unix(seconds, 0).  Published, Foreign,
\* ThemeList, BodyFormat and CommitCount are entry fields no update of the
\* cache writes: they read as their defaults and are left out of the tables
convertEntryToVersionInfo(r) ==
    [ZeroVersionInfo EXCEPT
        !.InitID = r.InitID,
        !.ProfileID = r.ProfileID,
        !.Name = r.PrettyName,
        !.Path = r.HeadRef,
        !.MetaTitle = r.MetaTitle,
        !.BodySize = r.BodySize,
        !.BodyRows = r.BodyRows,
        !.NumErrors = r.NumErrors,
        !.CommitTime = Time(r.CommitTime, 0)]

\* Dscache.LookupByName: [err, info]
LookupByName(root, ref) ==
    LET u == FirstIndex({k \in 1..Len(root.Users) : ref.Username = root.Users[k].Username})
        profileID == IF u # 0 THEN root.Users[u].ProfileID ELSE ref.ProfileID
        i == FirstIndex({k \in 1..Len(root.Refs) :
                            /\ root.Refs[k].ProfileID = profileID
                            /\ root.Refs[k].PrettyName = ref.Name})
    IN  IF profileID = ""
        THEN [err |-> "unknown username", info |-> ZeroVersionInfo]
        ELSE IF i = 0
        THEN [err |-> "dataset ref not found", info |-> ZeroVersionInfo]
        ELSE [err |-> NoErr, info |-> convertEntryToVersionInfo(root.Refs[i])]

\* completeRef taking the username of the first user, whatever its ProfileID
completeRef_FirstUser(root, ref) ==
    LET i == FirstIndex({k \in 1..Len(root.Refs) : root.Refs[k].InitID = ref.InitID})
    IN  IF i = 0
        THEN [err |-> ErrRefNotFound, ref |-> ref]
        ELSE LET r == root.Refs[i]
             IN  [err |-> NoErr,
                  ref |-> [ref EXCEPT
                      !.Path = r.HeadRef,
                      !.ProfileID = r.ProfileID,
                      !.Name = r.PrettyName,
                      !.Username = IF root.Users # <<>> THEN root.Users[1].Username ELSE @]]

\* Dscache.completeRef: [err, ref]
completeRef(root, ref) ==
    LET i == FirstIndex({k \in 1..Len(root.Refs) : root.Refs[k].InitID = ref.InitID})
    IN  IF i = 0
        THEN [err |-> ErrRefNotFound, ref |-> ref]
        ELSE LET r == root.Refs[i]
                 u == FirstIndex({k \in 1..Len(root.Users) : root.Users[k].ProfileID = r.ProfileID})
             IN  [err |-> NoErr,
                  ref |-> [ref EXCEPT
                      !.Path = r.HeadRef,
                      !.ProfileID = r.ProfileID,
                      !.Name = r.PrettyName,
                      !.Username = IF u # 0 THEN root.Users[u].Username ELSE @]]

\* Dscache.ResolveRef: [err, ref], ref being the caller's *dsref.Ref afterwards
ResolveRef(recvNil, root, ref) ==
    IF IsEmpty(recvNil, root)
    THEN [err |-> ErrRefNotFound, ref |-> ref]
    ELSE IF ref.InitID # ""
    THEN completeRef(root, ref)
    ELSE LET vi == LookupByName(root, ref)
         IN  IF vi.err # NoErr
             THEN [err |-> ErrRefNotFound, ref |-> ref]
             ELSE [err |-> NoErr,
                   ref |-> [ref EXCEPT
                       !.InitID = vi.info.InitID,
                       !.ProfileID = vi.info.ProfileID,
                       !.Path = IF @ = "" THEN vi.info.Path ELSE @]]

\* the memo of ensureProToUserMap: unset, or a map from profile ID to username
NilMap == [set |-> FALSE, m |-> <<>>]

\* Dscache.ensureProToUserMap: built once, a later association of a profile
\* ID overwriting an earlier one
ensureProToUserMap(root, memo) ==
    IF memo.set
    THEN memo
    ELSE [set |-> TRUE,
          m |-> [p \in {root.Users[i].ProfileID : i \in 1..Len(root.Users)} |->
                    LET k == CHOOSE k \in 1..Len(root.Users) :
                                 /\ root.Users[k].ProfileID = p
                                 /\ \A j \in (k + 1)..Len(root.Users) :
                                        root.Users[j].ProfileID # p
                    IN  root.Users[k].Username]]

\* profile.IDB58Decode: the ID, or the zero ID when the string does not decode
IDB58Decode(s) ==
    IF s \in {ProfileIDOf("alice"), ProfileIDOf("bob")} THEN s ELSE ""

\* Dscache.ListRefs: [err, refs, memo]
ListRefs(recvNil, root, memo) ==
    IF IsEmpty(recvNil, root)
    THEN [err |-> ErrNoDscache, refs |-> <<>>, memo |-> memo]
    ELSE LET mm == ensureProToUserMap(root, memo)
         IN  [err |-> NoErr,
              memo |-> mm,
              refs |-> [i \in 1..Len(root.Refs) |->
                  LET r == root.Refs[i]
                  IN  [Peername |-> IF r.ProfileID \in DOMAIN mm.m
                                    THEN mm.m[r.ProfileID] ELSE "",
                       ProfileID |-> IDB58Decode(r.ProfileID),
                       Name |-> r.PrettyName,
                       Path |-> r.HeadRef,
                       FSIPath |-> r.FsiPath,
                       Title |-> r.MetaTitle,
                       ErrCount |-> r.NumErrors,
                       Entries |-> r.BodyRows,
                       Length |-> r.BodySize,
                       NumVersions |-> r.TopIndex]]]

----------------------------------------------------------------------------
(* Building a cache: Builder, and the copy helpers of the update functions *)

NewBuilder == [users |-> <<>>, refs |-> <<>>]

\* Builder.AddUser
AddUser(b, username, profileID) ==
    [b EXCEPT !.users = Append(@, UserAssoc(username, profileID))]

\* Builder.AddDsVersionInfoWithIndexes: one Refs entry from a VersionInfo
AddDsVersionInfoWithIndexes(b, info, topIndex, cursorIndex) ==
    [b EXCEPT !.refs = Append(@,
        [InitID |-> info.InitID,
         ProfileID |-> info.ProfileID,
         TopIndex |-> topIndex,
         CursorIndex |-> cursorIndex,
         PrettyName |-> info.Name,
         MetaTitle |-> info.MetaTitle,
         BodySize |-> info.BodySize,
         BodyRows |-> info.BodyRows,
         NumErrors |-> info.NumErrors,
         CommitTime |-> Unix(info.CommitTime),
         HeadRef |-> info.Path,
         FsiPath |-> info.FSIPath])]

\* Builder.AddDsVersionInfo: an entry with zeroed indexes
AddDsVersionInfo(b, info) == AddDsVersionInfoWithIndexes(b, info, 0, 0)

\* Builder.Build
Build(b) == [set |-> TRUE, Users |-> b.users, Refs |-> b.refs]

\* Dscache.copyUserAssociationList
copyUserAssociationList(root) == root.Users

\* Dscache.copyReferenceListWithReplacement with a replacement function:
\* replacement[i] stands in for the entry i that matches, the others are copied
copyReferenceListReplacing(root, initID, replacement) ==
    [i \in 1..Len(root.Refs) |->
        IF root.Refs[i].InitID = initID THEN replacement[i] ELSE root.Refs[i]]

\* Dscache.copyReferenceListWithReplacement with a nil replacement function:
\* every entry that matches is left out
copyReferenceListOmitting(root, initID) ==
    SelectSeq(root.Refs, LAMBDA r : r.InitID # initID)

\* Dscache.finishBuilding
finishBuilding(users, refs) == [set |-> TRUE, Users |-> users, Refs |-> refs]

----------------------------------------------------------------------------
(* The event handler.  An update function yields the set of its possible   *)
(* outcomes [Root, err, saves]: the root it leaves, the error it returns   *)
(* and whether it reached save.  err = "save" stands for "the error of     *)
(* save".                                                                  *)

ETDatasetNameInit == "ETDatasetNameInit"
ETLogbookWriteCommit == "ETLogbookWriteCommit"
ETDatasetDeleteAll == "ETDatasetDeleteAll"
ETDatasetRename == "ETDatasetRename"
ETDatasetCreateLink == "ETDatasetCreateLink"

Outcome(root, err, saves) == [Root |-> root, err |-> err, saves |-> saves]

\* Dscache.validateProfileID
validateProfileID(profileID) == Len(profileID) = lengthOfProfileID

\* what d.Root.Refs(&r, i) can leave in r for an index past the end of the
\* vector: the generated accessor checks no bound, so r is whatever table the
\* bytes behind the vector decode to
JunkEntries == {GarbageEntry}

\* the entries the "copy ds versions" loop of updateInitDataset reads: it runs
\* to UsersLength, not RefsLength
EntriesCopiedOnInit(root, junk) ==
    [i \in 1..Len(root.Users) |->
        IF i <= Len(root.Refs) THEN root.Refs[i] ELSE junk[i - Len(root.Refs)]]

RECURSIVE AddAllWithIndexes(_, _)
AddAllWithIndexes(b, entries) ==
    IF entries = <<>>
    THEN b
    ELSE AddAllWithIndexes(
             AddDsVersionInfoWithIndexes(b, convertEntryToVersionInfo(Head(entries)),
                                         Head(entries).TopIndex, Head(entries).CursorIndex),
             Tail(entries))

RECURSIVE AddAllUsers(_, _)
AddAllUsers(b, users) ==
    IF users = <<>>
    THEN b
    ELSE AddAllUsers(AddUser(b, Head(users).Username, Head(users).ProfileID), Tail(users))

\* the VersionInfo with the username of the event where the dataset name belongs
NewDsVersionInfo_UsernameAsName(act) ==
    [ZeroVersionInfo EXCEPT
        !.InitID = act.InitID, !.ProfileID = act.ProfileID, !.Name = act.Username]

\* the VersionInfo updateInitDataset adds: InitID, ProfileID and Name of the event
NewDsVersionInfo(act) ==
    [ZeroVersionInfo EXCEPT
        !.InitID = act.InitID, !.ProfileID = act.ProfileID, !.Name = act.Name]

\* updateInitDataset that creates a cache whether or not CreateNewEnabled is set
updateInitDataset_AlwaysCreates(root, createNewEnabled, act) ==
    IF IsEmpty(FALSE, root)
    THEN IF ~validateProfileID(act.ProfileID)
         THEN {Outcome(root, ErrInvalidProfileID, FALSE)}
         ELSE {Outcome(Build(AddDsVersionInfo(
                           AddUser(NewBuilder, act.Username, act.ProfileID),
                           NewDsVersionInfo(act))),
                       NoErr, TRUE)}
    ELSE LET past == IF Len(root.Users) > Len(root.Refs)
                     THEN Len(root.Users) - Len(root.Refs) ELSE 0
             built(junk) ==
                 Build(AddDsVersionInfo(
                     AddAllWithIndexes(AddAllUsers(NewBuilder, root.Users),
                                       EntriesCopiedOnInit(root, junk)),
                     NewDsVersionInfo(act)))
         IN  {Outcome(built(junk), NoErr, TRUE) :
                  junk \in [1..past -> JunkEntries]}
             \cup (IF past > 0 THEN {Outcome(root, Panic, FALSE)} ELSE {})

\* Dscache.updateInitDataset
updateInitDataset(root, createNewEnabled, act) ==
    IF IsEmpty(FALSE, root)
    THEN IF ~createNewEnabled
         THEN {Outcome(root, NoErr, FALSE)}
         ELSE IF ~validateProfileID(act.ProfileID)
         THEN {Outcome(root, ErrInvalidProfileID, FALSE)}
         ELSE {Outcome(Build(AddDsVersionInfo(
                           AddUser(NewBuilder, act.Username, act.ProfileID),
                           NewDsVersionInfo(act))),
                       NoErr, TRUE)}
    ELSE LET past == IF Len(root.Users) > Len(root.Refs)
                     THEN Len(root.Users) - Len(root.Refs) ELSE 0
             built(junk) ==
                 Build(AddDsVersionInfo(
                     AddAllWithIndexes(AddAllUsers(NewBuilder, root.Users),
                                       EntriesCopiedOnInit(root, junk)),
                     NewDsVersionInfo(act)))
         IN  {Outcome(built(junk), NoErr, TRUE) :
                  junk \in [1..past -> JunkEntries]}
             \cup (IF past > 0 THEN {Outcome(root, Panic, FALSE)} ELSE {})

\* the entry of updateChangeCursor with the cursor index left behind
ChangeCursorEntry_StaleCursor(r, act) ==
    [r EXCEPT
        !.TopIndex = act.CommitCount,
        !.MetaTitle = act.MetaTitle,
        !.CommitTime = Unix(act.CommitTime),
        !.BodySize = act.BodySize,
        !.BodyRows = act.BodyRows,
        !.NumErrors = act.NumErrors,
        !.HeadRef = act.Path]

\* the entry updateChangeCursor builds in place of a matching one
ChangeCursorEntry(r, act) ==
    [r EXCEPT
        !.TopIndex = act.CommitCount,
        !.CursorIndex = act.CommitCount,
        !.MetaTitle = act.MetaTitle,
        !.CommitTime = Unix(act.CommitTime),
        !.BodySize = act.BodySize,
        !.BodyRows = act.BodyRows,
        !.NumErrors = act.NumErrors,
        !.HeadRef = act.Path]

\* Dscache.updateChangeCursor
updateChangeCursor(root, act) ==
    IF IsEmpty(FALSE, root)
    THEN {Outcome(root, ErrNoDscache, FALSE)}
    ELSE {Outcome(finishBuilding(
                      copyUserAssociationList(root),
                      copyReferenceListReplacing(root, act.InitID,
                          [i \in 1..Len(root.Refs) |->
                              ChangeCursorEntry(root.Refs[i], act)])),
                  "save", TRUE)}

\* updateDeleteDataset that rebuilds the references and leaves the users out
updateDeleteDataset_NoUsers(root, initID) ==
    IF IsEmpty(FALSE, root)
    THEN {Outcome(root, ErrNoDscache, FALSE)}
    ELSE {Outcome(finishBuilding(<<>>, copyReferenceListOmitting(root, initID)),
                  "save", TRUE)}

\* Dscache.updateDeleteDataset
updateDeleteDataset(root, initID) ==
    IF IsEmpty(FALSE, root)
    THEN {Outcome(root, ErrNoDscache, FALSE)}
    ELSE {Outcome(finishBuilding(
                      copyUserAssociationList(root),
                      copyReferenceListOmitting(root, initID)),
                  "save", TRUE)}

\* Dscache.handler, e = [Type, PayloadType, Payload]: the outcomes of the
\* update function the event type selects; ETDatasetRename is an empty case
\* and ETDatasetCreateLink has no case.  The handler itself logs the error
\* of the update and returns nil; err is the error of the update
handler(root, createNewEnabled, e) ==
    CASE e.Type = ETDatasetNameInit ->
            IF e.PayloadType # "dsref.VersionInfo"
            THEN {Outcome(root, NoErr, FALSE)}
            ELSE updateInitDataset(root, createNewEnabled, e.Payload)
      [] e.Type = ETLogbookWriteCommit ->
            IF e.PayloadType # "dsref.VersionInfo"
            THEN {Outcome(root, NoErr, FALSE)}
            ELSE updateChangeCursor(root, e.Payload)
      [] e.Type = ETDatasetDeleteAll ->
            IF e.PayloadType # "string"
            THEN {Outcome(root, NoErr, FALSE)}
            ELSE updateDeleteDataset(root, e.Payload)
      [] OTHER -> {Outcome(root, NoErr, FALSE)}

\* what a file holds: nothing, a whole buffer, or part of one
NoFile == [state |-> "absent", data |-> NilRoot]
WholeFile(root) == [state |-> "whole", data |-> root]
PartFile == [state |-> "part", data |-> NilRoot]

\* Dscache.save: [file, err].  ioutil.WriteFile truncates the file it opens
\* and then writes: it fails before opening, or with part of the buffer written
save(filename, onDisk, root) ==
    IF filename = ""
    THEN {[file |-> onDisk, err |-> NoErr]}
    ELSE {[file |-> WholeFile(root), err |-> NoErr],
          [file |-> onDisk, err |-> ErrWriteFile],
          [file |-> PartFile, err |-> ErrWriteFile]}

----------------------------------------------------------------------------
(* The logbook: per dataset log its state, author, name and number of      *)
(* commits; a deleted log keeps its tombstone and the name it had         *)

NoLog == [status |-> "Uninitialized", Username |-> "", PrettyName |-> "", commits |-> 0]

Live(b, id) == b[id].status = "Active"

\* the name is free in the author's namespace
NameFree(b, username, name) ==
    \A id \in InitIDs : Live(b, id) => ~(b[id].Username = username /\ b[id].PrettyName = name)

HasFreshInitID(b) == \E id \in InitIDs : b[id].status = "Uninitialized"

\* the InitID of the next dataset log
FreshInitID(b) ==
    InitIDNames[CHOOSE i \in 1..NumInitIDs :
        /\ b[InitIDNames[i]].status = "Uninitialized"
        /\ \A j \in 1..(i - 1) : b[InitIDNames[j]].status # "Uninitialized"]

\* the payload of ETLogbookWriteCommit for the k-th commit of a dataset
CommitInfo(id, k) ==
    [ZeroVersionInfo EXCEPT
        !.InitID = id,
        !.Path = HeadPaths[k],
        !.MetaTitle = "title",
        !.BodySize = 17 * k,
        !.BodyRows = 2 * k,
        !.NumErrors = k,
        !.CommitTime = Time(1000 + k, 500),
        !.CommitCount = k]

\* the VersionInfo a scan of the logbook yields for a live dataset
ScanInfo(b, id) ==
    IF b[id].commits = 0
    THEN [ZeroVersionInfo EXCEPT
             !.InitID = id,
             !.ProfileID = ProfileIDOf(b[id].Username),
             !.Name = b[id].PrettyName]
    ELSE [CommitInfo(id, b[id].commits) EXCEPT
             !.ProfileID = ProfileIDOf(b[id].Username),
             !.Name = b[id].PrettyName]

RECURSIVE ScanFrom(_, _, _)
ScanFrom(b, builder, i) ==
    IF i > NumInitIDs
    THEN builder
    ELSE ScanFrom(b,
             IF Live(b, InitIDNames[i])
             THEN AddDsVersionInfoWithIndexes(builder, ScanInfo(b, InitIDNames[i]),
                      b[InitIDNames[i]].commits, b[InitIDNames[i]].commits)
             ELSE builder,
             i + 1)

\* the cache a full scan of the logbook and the profile store builds
FullScan(b) ==
    Build(ScanFrom(b,
        AddAllUsers(NewBuilder,
            [i \in 1..Len(UserOrder) |-> UserAssoc(UserOrder[i], ProfileIDOf(UserOrder[i]))]),
        1))

----------------------------------------------------------------------------
(* The state machine *)

NoCall == [op |-> "none", arg |-> <<>>, err |-> NoErr, out |-> <<>>]

\* no ResolveRef call in progress
NoReader == [pc |-> "idle", arg |-> ZeroRef, ref |-> ZeroRef, i |-> 0, seen |-> {}, err |-> NoErr]

\* the nodes a node exchanges logs with
PeerNames == {"registry", "hinshun"}

\* the owners and workflows of the sources a listener is given
OwnerIDs == {"a", "b"}
SourceIDs == {"workflow 1", "workflow 2"}
SourceKeys == {<<"a", "workflow 1">>, <<"b", "workflow 1">>, <<"a", "workflow 2">>}

\* trigger.NewRuntimeListener: no active triggers; <<>> is no entry
NoTriggers == [k \in SourceKeys |-> <<>>]

\* NewMemRepo: the filesystem is open, doneWg counts the goroutine that waits
\* for it, doneCh is open
NotShutDown ==
    [fsDone |-> FALSE, fsDoneErr |-> NoErr, doneErr |-> NoErr,
     doneWg |-> 1, doneCh |-> "open", pc |-> "waiting"]

\* the IDs workflow.NewID hands out, in the order it hands them out
WorkflowIDNames == <<"wf1", "wf2", "wf3", "wf4", "wf5">>
WorkflowIDs == {WorkflowIDNames[i] : i \in 1..MaxWorkflows}

\* workflow.Workflow: ID, InitID, Active, Created; this one is the nil workflow
NoWorkflow == [ID |-> "", InitID |-> "", Active |-> FALSE, Created |-> 0]

\* a new workflow store: no workflows and no ID handed out yet; clock is the
\* time.Now() of the callers, puts remembers for every ID the workflow of the
\* last Put that succeeded, and the nil workflow once the ID is removed
NoWorkflows == [wfs |-> {}, minted |-> 0, clock |-> 0,
                puts |-> [id \in WorkflowIDs |-> NoWorkflow]]

\* the state NewDscache leaves when the file does not exist yet
Start(filename) ==
    /\ book = [id \in InitIDs |-> NoLog]
    /\ Root = NilRoot
    /\ CreateNewEnabled \in BOOLEAN
    /\ Filename = filename
    /\ file = NoFile
    /\ ProfileIDToUsername = NilMap
    /\ last = NoCall
    /\ reader = NoReader
    /\ peers = [p \in PeerNames |-> [id \in InitIDs |-> NoLog]]
    /\ workflows = NoWorkflows
    /\ listener = NoTriggers
    /\ pending = {}
    /\ shutdown = NotShutDown

\* the cache of MemRepo: no filename, nothing is loaded or saved
Init == Start("")

\* a panic in a bus subscriber ends the process
Running == last.err # Panic

\* event.Bus.Publish: the bus calls Dscache.handler with the event, and the
\* update function it selects ends with save
\* what Dscache.handler returns to the bus: it logs the error of the update
\* and returns nil; a panic in the update is not recovered
handlerReturn(err) == IF err = Panic THEN Panic ELSE NoErr

Publish(e) ==
    \E o \in handler(Root, CreateNewEnabled, e) :
        \E sv \in (IF o.saves THEN save(Filename, file, o.Root)
                   ELSE {[file |-> file, err |-> NoErr]}) :
            /\ Root' = o.Root
            /\ file' = sv.file
            /\ last' = [op |-> e.Type, arg |-> e.Payload,
                        err |-> IF o.err = "save" THEN sv.err ELSE o.err,
                        out |-> handlerReturn(o.err)]
            /\ UNCHANGED <<CreateNewEnabled, Filename, ProfileIDToUsername, reader, outside>>

Event(type, payloadType, payload) ==
    [Type |-> type, PayloadType |-> payloadType, Payload |-> payload]

\* Logbook.WriteDatasetInit
WriteDatasetInit(username, name) ==
    /\ Running
    /\ HasFreshInitID(book)
    /\ NameFree(book, username, name)
    /\ LET id == FreshInitID(book)
       IN  /\ book' = [book EXCEPT ![id] =
                  [status |-> "Active", Username |-> username, PrettyName |-> name,
                   commits |-> 0]]
           /\ Publish(Event(ETDatasetNameInit, "dsref.VersionInfo",
                  [ZeroVersionInfo EXCEPT
                      !.InitID = id,
                      !.ProfileID = ProfileIDOf(username),
                      !.Username = username,
                      !.Name = name]))

\* Logbook.WriteCommit
WriteCommit(id) ==
    /\ Running
    /\ Live(book, id)
    /\ book[id].commits < MaxCommits
    /\ book' = [book EXCEPT ![id].commits = @ + 1]
    /\ Publish(Event(ETLogbookWriteCommit, "dsref.VersionInfo",
           CommitInfo(id, book[id].commits + 1)))

\* Logbook.WriteRename
WriteRename(id, newName) ==
    /\ Running
    /\ Live(book, id)
    /\ NameFree(book, book[id].Username, newName)
    /\ book' = [book EXCEPT ![id].PrettyName = newName]
    /\ Publish(Event(ETDatasetRename, "rename",
           [InitID |-> id, OldName |-> book[id].PrettyName, NewName |-> newName]))

\* Logbook.WriteDeleteAll
WriteDeleteAll(id) ==
    /\ Running
    /\ Live(book, id)
    /\ book' = [book EXCEPT ![id].status = "Deleted", ![id].commits = 0]
    /\ Publish(Event(ETDatasetDeleteAll, "string", id))

\* Logbook.WriteLink
WriteLink(id) ==
    /\ Running
    /\ Live(book, id)
    /\ book' = book
    /\ Publish(Event(ETDatasetCreateLink, "link",
           [InitID |-> id, FSIPath |-> LinkDir]))

\* Dscache.Assign with the cache of a full rebuild
Assign ==
    /\ Running
    /\ LET other == FullScan(book)
       IN  \E sv \in save(Filename, file, other) :
               /\ Root' = other
               /\ file' = sv.file
               /\ last' = [op |-> "Assign", arg |-> <<>>, err |-> sv.err, out |-> sv.err]
    /\ UNCHANGED <<book, CreateNewEnabled, Filename, ProfileIDToUsername, reader, outside>>

\* the refs callers resolve: by InitID, by name, and by name with the ProfileID
\* of another user filled in
QueryRefs ==
    {[ZeroRef EXCEPT !.InitID = id] : id \in InitIDs}
    \cup {[ZeroRef EXCEPT !.Username = u, !.Name = n] : u \in {"alice", "bob"}, n \in Names}
    \cup {[ZeroRef EXCEPT !.Username = "bob", !.Name = n, !.ProfileID = ProfileIDOf("alice")] :
              n \in Names}

\* the refs resolved on a nil receiver
NilQueryRefs ==
    {[ZeroRef EXCEPT !.InitID = "I1"],
     [ZeroRef EXCEPT !.Username = "alice", !.Name = "world_bank"]}

\* a call of Dscache.ResolveRef, on a nil receiver or on the cache
DoResolveRef(recvNil, ref) ==
    /\ Running
    /\ LET r == ResolveRef(recvNil, Root, ref)
       IN  last' = [op |-> "ResolveRef", arg |-> [recvNil |-> recvNil, ref |-> ref],
                    err |-> r.err, out |-> r.ref]
    /\ UNCHANGED <<book, Root, CreateNewEnabled, Filename, file, ProfileIDToUsername, reader, outside>>

\* a call of Dscache.ListRefs
DoListRefs ==
    /\ Running
    /\ LET r == ListRefs(FALSE, Root, ProfileIDToUsername)
       IN  /\ ProfileIDToUsername' = r.memo
           /\ last' = [op |-> "ListRefs", arg |-> <<>>, err |-> r.err, out |-> r.refs]
    /\ UNCHANGED <<book, Root, CreateNewEnabled, Filename, file, reader, outside>>

Next ==
    \/ \E u \in Usernames, n \in Names : WriteDatasetInit(u, n)
    \/ \E id \in InitIDs : WriteCommit(id)
    \/ \E id \in InitIDs, n \in Names : WriteRename(id, n)
    \/ \E id \in InitIDs : WriteDeleteAll(id)
    \/ \E id \in InitIDs : WriteLink(id)
    \/ Assign
    \/ \E ref \in QueryRefs : DoResolveRef(FALSE, ref)
    \/ \E ref \in NilQueryRefs : DoResolveRef(TRUE, ref)
    \/ DoListRefs

Spec == Init /\ [][Next]_vars

----------------------------------------------------------------------------
(* Properties.  A call of ResolveRef leaves the cache as it found it, so in *)
(* a state whose last call is ResolveRef, Root is the root the call read.   *)

Resolved == last.op = "ResolveRef"

UserIndexes == 1..Len(Root.Users)
RefIndexes == 1..Len(Root.Refs)

\* C1: ResolveRef on a nil *Dscache, or on a Dscache whose Root is unset,
\* returns ErrRefNotFound whatever the ref is (and returns: it does not panic)
C1_NilOrEmptyIsNotFound ==
    (Resolved /\ (last.arg.recvNil \/ ~Root.set)) => last.err = ErrRefNotFound

\* a nil receiver was asked for a ref that the populated cache resolves
C1_Witness ==
    /\ Resolved
    /\ last.arg.recvNil
    /\ last.err = ErrRefNotFound
    /\ Root.set
    /\ ResolveRef(FALSE, Root, last.arg.ref).err = NoErr

\* C2: on a non-empty cache a ref without InitID resolves exactly when Users
\* maps its Username to a ProfileID p and Refs holds an entry (p, Name); it
\* then gets InitID and ProfileID from that entry, and otherwise the call
\* returns ErrRefNotFound
C2_ByNameIffUserAndEntry ==
    (Resolved /\ ~last.arg.recvNil /\ Root.set /\ last.arg.ref.InitID = "") =>
        LET ref == last.arg.ref
            hits == {<<i, j>> \in UserIndexes \X RefIndexes :
                        /\ Root.Users[i].Username = ref.Username
                        /\ Root.Refs[j].ProfileID = Root.Users[i].ProfileID
                        /\ Root.Refs[j].PrettyName = ref.Name}
        IN  IF hits = {}
            THEN last.err = ErrRefNotFound
            ELSE /\ last.err = NoErr
                 /\ \E h \in hits :
                        /\ last.out.InitID = Root.Refs[h[2]].InitID
                        /\ last.out.ProfileID = Root.Refs[h[2]].ProfileID

\* C3: on a non-empty cache a ref with an InitID resolves exactly when Refs
\* holds an entry with that InitID; Path, ProfileID and Name then come from
\* that entry and Username from the Users entry of its ProfileID; otherwise
\* the call returns ErrRefNotFound
C3_ByInitIDCompletesRef ==
    (Resolved /\ ~last.arg.recvNil /\ Root.set /\ last.arg.ref.InitID # "") =>
        LET ref == last.arg.ref
            hits == {j \in RefIndexes : Root.Refs[j].InitID = ref.InitID}
        IN  IF hits = {}
            THEN last.err = ErrRefNotFound
            ELSE /\ last.err = NoErr
                 /\ \E j \in hits :
                        /\ last.out.InitID = ref.InitID
                        /\ last.out.Path = Root.Refs[j].HeadRef
                        /\ last.out.ProfileID = Root.Refs[j].ProfileID
                        /\ last.out.Name = Root.Refs[j].PrettyName
                        /\ (\E i \in UserIndexes :
                                Root.Users[i].ProfileID = Root.Refs[j].ProfileID)
                           => \E i \in UserIndexes :
                                /\ Root.Users[i].ProfileID = Root.Refs[j].ProfileID
                                /\ last.out.Username = Root.Users[i].Username

\* a ref given by InitID alone came back with the head path, the name and the
\* username of a committed dataset
C3_Witness ==
    /\ Resolved
    /\ ~last.arg.recvNil
    /\ last.arg.ref.InitID # ""
    /\ last.arg.ref.Username = ""
    /\ last.err = NoErr
    /\ last.out.Path # ""
    /\ last.out.Name \in Names
    /\ last.out.Username \in Usernames

(* An update of the cache is told from the step that made it: last' names   *)
(* the event the handler got, Root is the cache the handler found and      *)
(* Root' the one it left.                                                  *)

Handled(type) == last'.op = type

NameQuery(username, name) == [ZeroRef EXCEPT !.Username = username, !.Name = name]
InitIDQuery(id) == [ZeroRef EXCEPT !.InitID = id]

Cached(root, id) == \E i \in 1..Len(root.Refs) : root.Refs[i].InitID = id

\* C4: when CreateNewEnabled, once the handler has processed ETDatasetNameInit
\* with a 46-character profileID, ResolveRef by (username, name) succeeds and
\* gives the InitID of the event
C4_InitThenResolves ==
    (/\ last.op = ETDatasetNameInit
     /\ last.err = NoErr
     /\ CreateNewEnabled
     /\ Len(last.arg.ProfileID) = 46) =>
        LET r == ResolveRef(FALSE, Root, NameQuery(last.arg.Username, last.arg.Name))
        IN  r.err = NoErr /\ r.ref.InitID = last.arg.InitID

\* C5: ETDatasetNameInit on a non-empty cache keeps Users and every Refs entry
\* as they are and adds exactly one Refs entry, with zeroed indexes
C5_InitAppendsOneEntry ==
    [][(Handled(ETDatasetNameInit) /\ Root.set) =>
          /\ Root'.set
          /\ Len(Root'.Users) >= Len(Root.Users)
          /\ SubSeq(Root'.Users, 1, Len(Root.Users)) = Root.Users
          /\ Len(Root'.Refs) = Len(Root.Refs) + 1
          /\ SubSeq(Root'.Refs, 1, Len(Root.Refs)) = Root.Refs
          /\ Root'.Refs[Len(Root'.Refs)].InitID = last'.arg.InitID
          /\ Root'.Refs[Len(Root'.Refs)].TopIndex = 0
          /\ Root'.Refs[Len(Root'.Refs)].CursorIndex = 0]_vars

\* the cache ETDatasetNameInit builds from nothing: one user, one entry with
\* zeroed indexes and no head
MinimalCache(root, act) ==
    /\ root.set
    /\ root.Users = <<UserAssoc(act.Username, act.ProfileID)>>
    /\ Len(root.Refs) = 1
    /\ root.Refs[1].InitID = act.InitID
    /\ root.Refs[1].ProfileID = act.ProfileID
    /\ root.Refs[1].PrettyName = act.Name
    /\ root.Refs[1].TopIndex = 0
    /\ root.Refs[1].CursorIndex = 0
    /\ root.Refs[1].HeadRef = ""

\* C6 as claimed: on an empty cache with CreateNewEnabled, ETDatasetNameInit
\* leaves the minimal cache of the event, whatever its profileID
C6_InitBuildsMinimalCache ==
    [][(Handled(ETDatasetNameInit) /\ ~Root.set /\ CreateNewEnabled) =>
          MinimalCache(Root', last'.arg)]_vars

\* C6 amended: on an empty cache with CreateNewEnabled, ETDatasetNameInit with
\* a 46-character profileID leaves the minimal cache of the event
C6_ValidInitBuildsMinimalCache ==
    [][(/\ Handled(ETDatasetNameInit)
        /\ ~Root.set
        /\ CreateNewEnabled
        /\ Len(last'.arg.ProfileID) = 46) =>
          MinimalCache(Root', last'.arg)]_vars

\* the first event of the logbook built the cache: the only user is its author
C6_Witness ==
    /\ last.op = ETDatasetNameInit
    /\ last.err = NoErr
    /\ CreateNewEnabled
    /\ \A id \in InitIDs : id # last.arg.InitID => book[id].status = "Uninitialized"
    /\ MinimalCache(Root, last.arg)

\* C7: ETDatasetNameInit with a profileID whose length is not 46 is rejected
\* with ErrInvalidProfileID and adds nothing, on a populated cache as on an
\* empty one that may be created
C7_InvalidProfileIDRejected ==
    [][(/\ Handled(ETDatasetNameInit)
        /\ Root.set \/ CreateNewEnabled
        /\ Len(last'.arg.ProfileID) # 46) =>
          /\ last'.err = ErrInvalidProfileID
          /\ Root' = Root]_vars

\* C8: ETLogbookWriteCommit for a cached InitID sets the entry's indexes to the
\* commit count and its head and meta fields from the event, keeps InitID,
\* ProfileID and PrettyName, and ResolveRef by InitID then gives the new path
C8_CommitUpdatesEntry ==
    [][(Handled(ETLogbookWriteCommit) /\ Root.set /\ Cached(Root, last'.arg.InitID)) =>
          LET act == last'.arg
              r == ResolveRef(FALSE, Root', InitIDQuery(act.InitID))
          IN  /\ Root'.set
              /\ Len(Root'.Refs) = Len(Root.Refs)
              /\ \A i \in 1..Len(Root.Refs) :
                    Root.Refs[i].InitID = act.InitID =>
                        /\ Root'.Refs[i].TopIndex = act.CommitCount
                        /\ Root'.Refs[i].CursorIndex = act.CommitCount
                        /\ Root'.Refs[i].HeadRef = act.Path
                        /\ Root'.Refs[i].MetaTitle = act.MetaTitle
                        /\ Root'.Refs[i].BodySize = act.BodySize
                        /\ Root'.Refs[i].BodyRows = act.BodyRows
                        /\ Root'.Refs[i].NumErrors = act.NumErrors
                        /\ Root'.Refs[i].CommitTime = act.CommitTime.sec
                        /\ Root'.Refs[i].InitID = Root.Refs[i].InitID
                        /\ Root'.Refs[i].ProfileID = Root.Refs[i].ProfileID
                        /\ Root'.Refs[i].PrettyName = Root.Refs[i].PrettyName
              /\ r.err = NoErr
              /\ r.ref.Path = act.Path]_vars

\* the first commit of a cached dataset reached its entry
C8_Witness ==
    /\ last.op = ETLogbookWriteCommit
    /\ last.err = NoErr
    /\ \E i \in RefIndexes :
          /\ Root.Refs[i].InitID = last.arg.InitID
          /\ Root.Refs[i].TopIndex = 1
          /\ Root.Refs[i].HeadRef = "/hash/p1"
          /\ Root.Refs[i].BodyRows = 2
          /\ Root.Refs[i].PrettyName \in Names

\* C9: after ETDatasetDeleteAll the cache holds no entry with the InitID:
\* ListRefs lists the other entries only, and ResolveRef by the InitID and by
\* the (username, name) the dataset had both return ErrRefNotFound
C9_DeleteRemovesDataset ==
    [][Handled(ETDatasetDeleteAll) =>
          LET id == last'.arg
              listed == ListRefs(FALSE, Root', ProfileIDToUsername').refs
          IN  /\ ~Cached(Root', id)
              /\ Len(listed) <= Len(Root'.Refs)
              /\ ResolveRef(FALSE, Root', InitIDQuery(id)).err = ErrRefNotFound
              /\ ResolveRef(FALSE, Root',
                     NameQuery(book[id].Username, book[id].PrettyName)).err
                 = ErrRefNotFound]_vars

\* C10: after ETDatasetRename for a cached dataset its entry carries the new
\* name: ResolveRef by (username, oldName) returns ErrRefNotFound and by
\* (username, newName) gives the InitID and the Path of the dataset
C10_RenameReplacesPrettyName ==
    (last.op = ETDatasetRename /\ Root.set /\ Cached(Root, last.arg.InitID)) =>
        LET id == last.arg.InitID
            old == ResolveRef(FALSE, Root, NameQuery(book[id].Username, last.arg.OldName))
            new == ResolveRef(FALSE, Root, NameQuery(book[id].Username, last.arg.NewName))
        IN  /\ \A i \in RefIndexes :
                  Root.Refs[i].InitID = id => Root.Refs[i].PrettyName = last.arg.NewName
            /\ old.err = ErrRefNotFound
            /\ new.err = NoErr
            /\ new.ref.InitID = id
            /\ \E i \in RefIndexes :
                  Root.Refs[i].InitID = id /\ new.ref.Path = Root.Refs[i].HeadRef

\* C11: after ETDatasetCreateLink for a cached InitID the entry's FsiPath is
\* the path the event carries
C11_LinkSetsFsiPath ==
    (last.op = ETDatasetCreateLink /\ Root.set /\ Cached(Root, last.arg.InitID)) =>
        \A i \in RefIndexes :
            Root.Refs[i].InitID = last.arg.InitID =>
                Root.Refs[i].FsiPath = last.arg.FSIPath

----------------------------------------------------------------------------
(* Replay: the cache is created by the first event (CreateNewEnabled) and   *)
(* sees every event the logbook publishes, and nothing else writes it.     *)

InitReplay == Init /\ CreateNewEnabled

NextReplay ==
    \/ \E u \in Usernames, n \in Names : WriteDatasetInit(u, n)
    \/ \E id \in InitIDs : WriteCommit(id)
    \/ \E id \in InitIDs, n \in Names : WriteRename(id, n)
    \/ \E id \in InitIDs : WriteDeleteAll(id)
    \/ \E id \in InitIDs : WriteLink(id)
    \/ DoListRefs

SpecReplay == InitReplay /\ [][NextReplay]_vars

\* what the claim compares of a cache: per entry its InitID, ProfileID,
\* PrettyName, head path and commit index
ScanEntries(root) ==
    {[InitID |-> root.Refs[i].InitID,
      ProfileID |-> root.Refs[i].ProfileID,
      PrettyName |-> root.Refs[i].PrettyName,
      HeadRef |-> root.Refs[i].HeadRef,
      TopIndex |-> root.Refs[i].TopIndex] : i \in 1..Len(root.Refs)}

\* C12: the cache built by handling the events of the logbook in order, from
\* an empty cache, holds exactly the entries a full scan of the logbook yields
\* (stated for logbooks whose live datasets have authors with 46-character
\* profile IDs, the ones ETDatasetNameInit does not reject)
C12_ReplayEqualsFullScan ==
    (\A id \in InitIDs :
        Live(book, id) => Len(ProfileIDOf(book[id].Username)) = 46) =>
        ScanEntries(Root) = ScanEntries(FullScan(book))

----------------------------------------------------------------------------
(* At-least-once delivery: the bus may hand the handler the event it has   *)
(* just handled a second time.                                             *)

PayloadTypeOf(type) ==
    CASE type \in {ETDatasetNameInit, ETLogbookWriteCommit} -> "dsref.VersionInfo"
      [] type = ETDatasetDeleteAll -> "string"
      [] type = ETDatasetRename -> "rename"
      [] OTHER -> "link"

EventTypes ==
    {ETDatasetNameInit, ETLogbookWriteCommit, ETDatasetDeleteAll,
     ETDatasetRename, ETDatasetCreateLink}

\* the last event is delivered again; the logbook wrote nothing
Redeliver ==
    /\ Running
    /\ last.op \in EventTypes
    /\ book' = book
    /\ Publish(Event(last.op, PayloadTypeOf(last.op), last.arg))

NextAtLeastOnce ==
    \/ \E u \in Usernames, n \in Names : WriteDatasetInit(u, n)
    \/ \E id \in InitIDs : WriteCommit(id)
    \/ \E id \in InitIDs, n \in Names : WriteRename(id, n)
    \/ \E id \in InitIDs : WriteDeleteAll(id)
    \/ \E id \in InitIDs : WriteLink(id)
    \/ Redeliver

SpecAtLeastOnce == Init /\ [][NextAtLeastOnce]_vars

NoDuplicateInitIDs(root) ==
    \A i, j \in 1..Len(root.Refs) :
        root.Refs[i].InitID = root.Refs[j].InitID => i = j

\* C13: handling the same ETDatasetNameInit, ETLogbookWriteCommit or
\* ETDatasetDeleteAll event a second time leaves the cache as the first
\* handling left it, with no two entries of one InitID
C13_DuplicateDeliveryIsIdempotent ==
    [][(/\ book' = book
        /\ last.op \in {ETDatasetNameInit, ETLogbookWriteCommit, ETDatasetDeleteAll}
        /\ last'.op = last.op
        /\ last'.arg = last.arg) =>
          /\ Root' = Root
          /\ NoDuplicateInitIDs(Root')]_vars

----------------------------------------------------------------------------
(* Concurrent reads: ResolveRef by InitID runs on another goroutine, one   *)
(* iteration of the loop of completeRef per step, while the handler and    *)
(* Assign replace d.Root.  d.Root is a plain field read again at every     *)
(* iteration; an iteration is taken as one read.  While the call runs,     *)
(* reader.seen collects the roots it has read.                             *)

\* ResolveRef is called: IsEmpty reads d.Root
BeginResolve(ref) ==
    /\ Running
    /\ reader.pc \in {"idle", "done"}
    /\ reader' =
          IF IsEmpty(FALSE, Root)
          THEN [pc |-> "done", arg |-> ref, ref |-> ref, i |-> 0,
                seen |-> {}, err |-> ErrRefNotFound]
          ELSE [pc |-> "loop", arg |-> ref, ref |-> ref, i |-> 0,
                seen |-> {Root}, err |-> NoErr]
    /\ UNCHANGED <<book, Root, CreateNewEnabled, Filename, file, ProfileIDToUsername, last, outside>>

\* one iteration of "for i := 0; i < d.Root.RefsLength(); i++" in completeRef,
\* the inner loop over Users included
StepResolve ==
    /\ Running
    /\ reader.pc = "loop"
    /\ LET seen == reader.seen \cup {Root}
       IN  reader' =
              IF reader.i >= Len(Root.Refs)
              THEN [reader EXCEPT !.pc = "done", !.seen = {}, !.err = ErrRefNotFound]
              ELSE LET r == Root.Refs[reader.i + 1]
                       u == FirstIndex({k \in 1..Len(Root.Users) :
                                           Root.Users[k].ProfileID = r.ProfileID})
                   IN  IF r.InitID = reader.ref.InitID
                       THEN [reader EXCEPT
                                !.pc = "done", !.seen = {}, !.err = NoErr,
                                !.ref = [@ EXCEPT
                                    !.Path = r.HeadRef,
                                    !.ProfileID = r.ProfileID,
                                    !.Name = r.PrettyName,
                                    !.Username = IF u # 0 THEN Root.Users[u].Username ELSE @]]
                       ELSE [reader EXCEPT !.i = @ + 1, !.seen = seen]
    /\ UNCHANGED <<book, Root, CreateNewEnabled, Filename, file, ProfileIDToUsername, last, outside>>

NextConcurrent ==
    \/ \E u \in {"alice", "bob"}, n \in Names : WriteDatasetInit(u, n)
    \/ \E id \in InitIDs : WriteCommit(id)
    \/ \E id \in InitIDs : WriteDeleteAll(id)
    \/ Assign
    \/ \E id \in InitIDs : BeginResolve(InitIDQuery(id))
    \/ StepResolve

SpecConcurrent == Init /\ [][NextConcurrent]_vars

\* C14: a ResolveRef call that runs while the cache is updated returns what
\* it would return on one of the roots it read during the call, the one the
\* cache held before an update or the one it holds after it
C14_ReadsOneSnapshot ==
    [][(reader'.pc = "done" /\ reader.pc # "done") =>
          \E root \in reader.seen \cup {Root} :
              LET r == ResolveRef(FALSE, root, reader'.arg)
              IN  r.err = reader'.err /\ (r.err = NoErr => r.ref = reader'.ref)]_vars

----------------------------------------------------------------------------
(* A cache with a file: NewDscache was given a filename, every update      *)
(* saves the new buffer to it.                                             *)

CacheFilename == "dscache.qfb"

InitFile == Start(CacheFilename)

\* the operations that save: rename and link events reach no update function
NextFile ==
    \/ \E u \in {"alice", "bob"}, n \in Names : WriteDatasetInit(u, n)
    \/ \E id \in InitIDs : WriteCommit(id)
    \/ \E id \in InitIDs : WriteDeleteAll(id)
    \/ Assign

SpecFile == InitFile /\ [][NextFile]_vars

\* C15: the file never holds part of a buffer, and after an update that
\* returned no error it holds the buffer of the cache
C15_FileReplacedAtomically ==
    /\ file.state # "part"
    /\ (/\ last.op \in {ETDatasetNameInit, ETLogbookWriteCommit, ETDatasetDeleteAll, "Assign"}
        /\ last.err = NoErr
        /\ Root.set) => file = WholeFile(Root)

\* C16: Dscache.handler returns nil to the bus for every event it receives
C16_HandlerReturnsNil ==
    last.op \in EventTypes => last.out = NoErr

----------------------------------------------------------------------------
(* Resolver composition: the resolvers of a local node and the sequential  *)
(* combinator over them.                                                   *)

ErrNoLogbook == "cannot resolve local references without logbook"

\* the head path of a dataset log: the path of its latest commit
HeadPathOf(b, id) == IF b[id].commits = 0 THEN "" ELSE HeadPaths[b[id].commits]

\* Logbook.ResolveRef that matches logs ending with a tombstone too
LogbookResolveRef_IgnoresTombstone(b, ref) ==
    LET hits == IF ref.InitID # ""
                THEN {id \in InitIDs : id = ref.InitID /\ b[id].status # "Uninitialized"}
                ELSE {id \in InitIDs : /\ b[id].status # "Uninitialized"
                                       /\ b[id].Username = ref.Username
                                       /\ b[id].PrettyName = ref.Name}
    IN  IF hits = {}
        THEN [err |-> ErrRefNotFound, ref |-> ref]
        ELSE LET id == CHOOSE id \in hits : TRUE
             IN  [err |-> NoErr,
                  ref |-> [ref EXCEPT
                      !.InitID = id,
                      !.Username = b[id].Username,
                      !.ProfileID = ProfileIDOf(b[id].Username),
                      !.Name = b[id].PrettyName,
                      !.Path = HeadPathOf(b, id)]]

\* Logbook.ResolveRef: [err, ref]; by InitID, or by the author's username and
\* the name of a live dataset
LogbookResolveRef(b, ref) ==
    LET hits == IF ref.InitID # ""
                THEN {id \in InitIDs : id = ref.InitID /\ Live(b, id)}
                ELSE {id \in InitIDs : /\ Live(b, id)
                                       /\ b[id].Username = ref.Username
                                       /\ b[id].PrettyName = ref.Name}
    IN  IF hits = {}
        THEN [err |-> ErrRefNotFound, ref |-> ref]
        ELSE LET id == CHOOSE id \in hits : TRUE
             IN  [err |-> NoErr,
                  ref |-> [ref EXCEPT
                      !.InitID = id,
                      !.Username = b[id].Username,
                      !.ProfileID = ProfileIDOf(b[id].Username),
                      !.Name = b[id].PrettyName,
                      !.Path = HeadPathOf(b, id)]]

\* MemRepo.ResolveRef with the nil check taken out
MemRepoResolveRef_NoNilCheck(recvNil, hasLogbook, b, ref) ==
    IF ~hasLogbook
    THEN [err |-> ErrNoLogbook, ref |-> ref]
    ELSE LogbookResolveRef(b, ref)

\* MemRepo.ResolveRef: recvNil says the receiver is a nil *MemRepo,
\* hasLogbook that r.logbook is set
MemRepoResolveRef(recvNil, hasLogbook, b, ref) ==
    IF recvNil
    THEN [err |-> ErrRefNotFound, ref |-> ref]
    ELSE IF ~hasLogbook
    THEN [err |-> ErrNoLogbook, ref |-> ref]
    ELSE LogbookResolveRef(b, ref)

\* MemResolver.ResolveRef over the VersionInfos put into it
MemResolverResolveRef(recvNil, store, ref) ==
    LET hits == {vi \in store :
                    IF ref.InitID # ""
                    THEN vi.InitID = ref.InitID
                    ELSE vi.Username = ref.Username /\ vi.Name = ref.Name}
    IN  IF recvNil \/ hits = {}
        THEN [err |-> ErrRefNotFound, ref |-> ref]
        ELSE LET vi == CHOOSE vi \in hits : TRUE
             IN  [err |-> NoErr,
                  ref |-> [ref EXCEPT
                      !.InitID = vi.InitID,
                      !.Username = vi.Username,
                      !.ProfileID = vi.ProfileID,
                      !.Name = vi.Name,
                      !.Path = vi.Path]]

\* resolver handles: what a slot of the combinator holds
DscacheHandle(isNil) == [kind |-> "Dscache", isNil |-> isNil]
MemRepoHandle(isNil, hasLogbook) ==
    [kind |-> "MemRepo", isNil |-> isNil, hasLogbook |-> hasLogbook]
MemResolverHandle(isNil) == [kind |-> "MemResolver", isNil |-> isNil]

\* the dataset the test puts into its MemResolver
MemStore ==
    {[ZeroVersionInfo EXCEPT
         !.InitID = "I1", !.Username = "alice",
         !.ProfileID = ProfileIDOf("alice"), !.Name = "world_bank",
         !.Path = "/hash/mem"]}

\* the call resolver.ResolveRef(ctx, ref) on a handle
CallResolver(h, root, b, ref) ==
    CASE h.kind = "Dscache" -> ResolveRef(h.isNil, root, ref)
      [] h.kind = "MemRepo" -> MemRepoResolveRef(h.isNil, h.hasLogbook, b, ref)
      [] OTHER -> MemResolverResolveRef(h.isNil, MemStore, ref)

\* the loop of the combinator from slot i on: [err, ref, calls], calls being
\* the slots whose resolver was invoked, in order
RECURSIVE SequentialFrom(_, _, _, _, _, _)
SequentialFrom(rs, i, root, b, ref, calls) ==
    IF i > Len(rs)
    THEN [err |-> ErrRefNotFound, ref |-> ref, calls |-> calls]
    ELSE LET r == CallResolver(rs[i], root, b, ref)
         IN  IF r.err = ErrRefNotFound
             THEN SequentialFrom(rs, i + 1, root, b, r.ref, Append(calls, i))
             ELSE [err |-> r.err, ref |-> r.ref, calls |-> Append(calls, i)]

\* the loop going on to the next resolver after any error
RECURSIVE SequentialFromAnyError(_, _, _, _, _, _)
SequentialFromAnyError(rs, i, root, b, ref, calls) ==
    IF i > Len(rs)
    THEN [err |-> ErrRefNotFound, ref |-> ref, calls |-> calls]
    ELSE LET r == CallResolver(rs[i], root, b, ref)
         IN  IF r.err # NoErr
             THEN SequentialFromAnyError(rs, i + 1, root, b, r.ref, Append(calls, i))
             ELSE [err |-> r.err, ref |-> r.ref, calls |-> Append(calls, i)]

\* a sequential resolver that treats every error as ErrRefNotFound
SequentialResolver_AnyErrorContinues(rs, root, b, ref) ==
    SequentialFromAnyError(rs, 1, root, b, ref, <<>>)

\* dsref.SequentialResolver(rs...).ResolveRef(ctx, ref)
SequentialResolver(rs, root, b, ref) ==
    SequentialFrom(rs, 1, root, b, ref, <<>>)

ResolverHandles ==
    {DscacheHandle(FALSE), DscacheHandle(TRUE),
     MemRepoHandle(FALSE, TRUE), MemRepoHandle(FALSE, FALSE), MemRepoHandle(TRUE, FALSE),
     MemResolverHandle(FALSE), MemResolverHandle(TRUE)}

ResolverLists == UNION {[1..n -> ResolverHandles] : n \in 1..MaxResolvers}

SequentialQueryRefs ==
    {InitIDQuery("I1"), NameQuery("alice", "world_bank"), NameQuery("alice", "wbp")}

\* a call of the sequential resolver of a node
DoSequentialResolve(rs, ref) ==
    /\ Running
    /\ LET r == SequentialResolver(rs, Root, book, ref)
       IN  last' = [op |-> "SequentialResolver",
                    arg |-> [resolvers |-> rs, ref |-> ref],
                    err |-> r.err,
                    out |-> [ref |-> r.ref, calls |-> r.calls]]
    /\ UNCHANGED <<book, Root, CreateNewEnabled, Filename, file, ProfileIDToUsername, reader, outside>>

NextResolvers ==
    \/ \E n \in Names : WriteDatasetInit("alice", n)
    \/ \E id \in InitIDs : WriteCommit(id)
    \/ \E id \in InitIDs, n \in Names : WriteRename(id, n)
    \/ \E id \in InitIDs : WriteDeleteAll(id)
    \/ \E rs \in ResolverLists, ref \in SequentialQueryRefs : DoSequentialResolve(rs, ref)

SpecResolvers == Init /\ [][NextResolvers]_vars

Sequenced == last.op = "SequentialResolver"

\* C17: the sequential resolver returns the result of the first resolver, in
\* the given order, whose result is not ErrRefNotFound, having invoked the
\* resolvers up to that one and none after it; it returns ErrRefNotFound only
\* when every resolver did
C17_FirstNonNotFoundWins ==
    Sequenced =>
        LET rs == last.arg.resolvers
            res(i) == CallResolver(rs[i], Root, book, last.arg.ref)
            stops == {i \in 1..Len(rs) : res(i).err # ErrRefNotFound}
        IN  IF stops = {}
            THEN /\ last.err = ErrRefNotFound
                 /\ last.out.calls = [i \in 1..Len(rs) |-> i]
            ELSE LET k == CHOOSE k \in stops : \A j \in stops : k <= j
                 IN  /\ last.err = res(k).err
                     /\ last.out.ref = res(k).ref
                     /\ last.out.calls = [i \in 1..k |-> i]

\* a later resolver answered after the first returned ErrRefNotFound
C17_Witness ==
    /\ Sequenced
    /\ last.err = NoErr
    /\ last.out.calls = <<1, 2>>
    /\ last.arg.resolvers[1] = DscacheHandle(FALSE)
    /\ last.arg.resolvers[2] = MemRepoHandle(FALSE, TRUE)
    /\ Root.set

\* C18: a nil resolver at any position behaves as ErrRefNotFound: the result
\* is that of the same sequence without its nil entries, and nothing panics
C18_NilResolversAreSkipped ==
    Sequenced =>
        LET rs == last.arg.resolvers
            kept == SelectSeq(rs, LAMBDA h : ~h.isNil)
            r == SequentialResolver(kept, Root, book, last.arg.ref)
        IN  /\ last.err # Panic
            /\ last.err = r.err
            /\ last.out.ref = r.ref

\* the composition of a node whose dscache is nil: the repo resolved the ref
C18_Witness ==
    /\ Sequenced
    /\ last.err = NoErr
    /\ last.arg.resolvers = <<DscacheHandle(TRUE), MemRepoHandle(FALSE, TRUE)>>
    /\ last.out.calls = <<1, 2>>
    /\ last.out.ref.InitID = "I1"

----------------------------------------------------------------------------
(* Resolving refs the caller has partly filled in *)

\* refs with fields the cache may hold other values for
FilledQueryRefs ==
    {[ZeroRef EXCEPT !.InitID = "I1", !.Name = "wbp", !.Path = "/hash/old"],
     [ZeroRef EXCEPT !.Username = "alice", !.Name = "world_bank", !.Path = "/hash/old"]}

NextFilled ==
    \/ \E u \in {"alice", "bob"}, n \in Names : WriteDatasetInit(u, n)
    \/ \E id \in InitIDs : WriteCommit(id)
    \/ \E id \in InitIDs : WriteDeleteAll(id)
    \/ \E ref \in FilledQueryRefs : DoResolveRef(FALSE, ref)

SpecFilled == Init /\ [][NextFilled]_vars

\* C19: a successful ResolveRef leaves every field of the ref the caller had
\* filled in (Username, ProfileID, Name, Path) as it was
C19_KeepsFilledFields ==
    (Resolved /\ last.err = NoErr) =>
        LET given == last.arg.ref
        IN  /\ given.Username # "" => last.out.Username = given.Username
            /\ given.ProfileID # "" => last.out.ProfileID = given.ProfileID
            /\ given.Name # "" => last.out.Name = given.Name
            /\ given.Path # "" => last.out.Path = given.Path

----------------------------------------------------------------------------
(* The life of a dataset log: Uninitialized, Active, Deleted *)

ErrDeleted == "ErrDeleted"

\* the writes that append to an existing dataset log
LogWrites == {"WriteCommit", "WriteRename", "WriteLink"}

\* the events the writes publish when they are accepted
LogWriteEvents == {ETLogbookWriteCommit, ETDatasetRename, ETDatasetCreateLink}

\* Logbook.WriteCommit, WriteRename or WriteLink on a log that ends with a
\* tombstone: the write is rejected, nothing is appended or published
WriteRejected(op, id) ==
    /\ Running
    /\ book[id].status = "Deleted"
    /\ last' = [op |-> op, arg |-> id, err |-> ErrDeleted, out |-> ErrDeleted]
    /\ UNCHANGED <<book, Root, CreateNewEnabled, Filename, file, ProfileIDToUsername, reader, outside>>

\* the refs resolved against the logbook
LifecycleQueryRefs ==
    {InitIDQuery(id) : id \in InitIDs}
    \cup {NameQuery(u, n) : u \in {"alice", "bob"}, n \in Names}

\* a call of Logbook.ResolveRef
DoLogbookResolveRef(ref) ==
    /\ Running
    /\ LET r == LogbookResolveRef(book, ref)
       IN  last' = [op |-> "Logbook.ResolveRef", arg |-> ref, err |-> r.err, out |-> r.ref]
    /\ UNCHANGED <<book, Root, CreateNewEnabled, Filename, file, ProfileIDToUsername, reader, outside>>

NextLifecycle ==
    \/ \E u \in {"alice", "bob"}, n \in Names : WriteDatasetInit(u, n)
    \/ \E id \in InitIDs : WriteCommit(id)
    \/ \E id \in InitIDs, n \in Names : WriteRename(id, n)
    \/ \E id \in InitIDs : WriteDeleteAll(id)
    \/ \E id \in InitIDs : WriteLink(id)
    \/ \E op \in LogWrites, id \in InitIDs : WriteRejected(op, id)
    \/ \E ref \in LifecycleQueryRefs : DoLogbookResolveRef(ref)

SpecLifecycle == Init /\ [][NextLifecycle]_vars

\* the InitID a published write event is about
EventInitID(payload) == payload.InitID

\* a step moves a log from Uninitialized to Active or from Active to Deleted
\* only, and leaves a Deleted log as it is
MovesForwardOnly(id) ==
    /\ book'[id].status # book[id].status =>
           <<book[id].status, book'[id].status>>
               \in {<<"Uninitialized", "Active">>, <<"Active", "Deleted">>}
    /\ book[id].status = "Deleted" => book'[id] = book[id]

\* a write on a Deleted log publishes nothing and returns ErrDeleted
WritesAreRejected(id) ==
    book[id].status = "Deleted" =>
        /\ ~(last'.op \in LogWriteEvents /\ EventInitID(last'.arg) = id)
        /\ (last'.op \in LogWrites /\ last'.arg = id) => last'.err = ErrDeleted

\* the step is a call of Logbook.ResolveRef by the name the Deleted log id had
ResolvedByNameOf(id) ==
    /\ book[id].status = "Deleted"
    /\ last'.op = "Logbook.ResolveRef"
    /\ last'.arg = NameQuery(book[id].Username, book[id].PrettyName)

\* C20 as stated: a log moves only Uninitialized to Active to Deleted; once it
\* is Deleted every WriteCommit, WriteRename and WriteLink on it is rejected
\* with ErrDeleted, it is never Active again, and ResolveRef by its name
\* returns ErrRefNotFound
C20_DeletedNameNeverResolves ==
    [][\A id \in InitIDs :
          /\ MovesForwardOnly(id)
          /\ WritesAreRejected(id)
          /\ ResolvedByNameOf(id) => last'.err = ErrRefNotFound]_vars

\* C20, amended: a log moves only Uninitialized to Active to Deleted; once it
\* is Deleted every WriteCommit, WriteRename and WriteLink on it is rejected
\* with ErrDeleted and it is never Active again; ResolveRef never resolves to
\* it, and by its name returns ErrRefNotFound unless a live dataset of the
\* author has taken the name, which it then resolves to
C20_DeletedIsTerminal ==
    [][\A id \in InitIDs :
          /\ MovesForwardOnly(id)
          /\ WritesAreRejected(id)
          /\ (last'.op = "Logbook.ResolveRef" /\ last'.err = NoErr) =>
                 Live(book, last'.out.InitID)
          /\ ResolvedByNameOf(id) =>
                 IF NameFree(book, book[id].Username, book[id].PrettyName)
                 THEN last'.err = ErrRefNotFound
                 ELSE last'.err = NoErr /\ last'.out.InitID # id]_vars

\* the name of a Deleted log was taken by a new dataset, and resolves to it
C20_Witness ==
    /\ last.op = "Logbook.ResolveRef"
    /\ last.err = NoErr
    /\ \E id \in InitIDs :
           /\ book[id].status = "Deleted"
           /\ last.arg = NameQuery(book[id].Username, book[id].PrettyName)
           /\ last.out.InitID # id

----------------------------------------------------------------------------
(* Logs exchanged between nodes: a node pushes a dataset log to the         *)
(* registry, a second node pulls it from there; the receiver merges it      *)

\* the state of the node itself, which a merge on another node leaves alone
node == <<book, Root, CreateNewEnabled, Filename, file, ProfileIDToUsername, reader>>

\* the live dataset logs of a logbook that carry the name
LiveByName(b, username, name) ==
    {id \in InitIDs : Live(b, id) /\ b[id].Username = username /\ b[id].PrettyName = name}

\* Logbook.DatasetRef: the log of the dataset a ref names, for live datasets
HasDatasetRef(b, id) == Live(b, id)

\* Logbook.MergeLog: the incoming log of a dataset extends the copy the
\* logbook holds, the ops it already holds are skipped and the rest appended
MergeLog(local, id, incoming) ==
    IF local[id] = incoming THEN local ELSE [local EXCEPT ![id] = incoming]

\* Logbook.ResolveRef where more than one live log may carry the name: every
\* result the lookup can give
LogbookResolveRefAny(b, ref) ==
    LET hits == IF ref.InitID # ""
                THEN {id \in InitIDs : id = ref.InitID /\ Live(b, id)}
                ELSE LiveByName(b, ref.Username, ref.Name)
    IN  IF hits = {}
        THEN {[err |-> ErrRefNotFound, ref |-> ref]}
        ELSE {[err |-> NoErr,
               ref |-> [ref EXCEPT
                   !.InitID = id,
                   !.Username = b[id].Username,
                   !.ProfileID = ProfileIDOf(b[id].Username),
                   !.Name = b[id].PrettyName,
                   !.Path = HeadPathOf(b, id)]] : id \in hits}

\* the node pushes the log of one of its datasets to the registry
PushToRegistry(id) ==
    /\ Running
    /\ HasDatasetRef(book, id)
    /\ peers' = [peers EXCEPT !["registry"] = MergeLog(@, id, book[id])]
    /\ last' = [op |-> "MergeLog", arg |-> [to |-> "registry", InitID |-> id, log |-> book[id]],
                err |-> NoErr, out |-> <<>>]
    /\ UNCHANGED <<node, workflows, services>>

\* the second node pulls the log of a dataset from the registry
Pull(id) ==
    /\ Running
    /\ HasDatasetRef(peers["registry"], id)
    /\ peers' = [peers EXCEPT !["hinshun"] = MergeLog(@, id, peers["registry"][id])]
    /\ last' = [op |-> "MergeLog",
                arg |-> [to |-> "hinshun", InitID |-> id, log |-> peers["registry"][id]],
                err |-> NoErr, out |-> <<>>]
    /\ UNCHANGED <<node, workflows, services>>

NextMerge ==
    \/ \E n \in Names : WriteDatasetInit("alice", n)
    \/ \E id \in InitIDs : WriteCommit(id)
    \/ \E id \in InitIDs, n \in Names : WriteRename(id, n)
    \/ \E id \in InitIDs : WriteDeleteAll(id)
    \/ \E id \in InitIDs : PushToRegistry(id)
    \/ \E id \in InitIDs : Pull(id)

SpecMerge == Init /\ [][NextMerge]_vars

\* every logbook: the node's own and those of the other nodes
Logbooks == {book} \cup {peers[p] : p \in PeerNames}

\* at most one live dataset of an author carries a name
UniqueLiveNames(b) ==
    \A u \in Usernames, n \in Names : Cardinality(LiveByName(b, u, n)) <= 1

\* C21: in every logbook, after any sequence of WriteDatasetInit, WriteRename,
\* WriteDeleteAll and MergeLog, a (Username, PrettyName) names at most one live
\* dataset, and WriteDatasetInit and WriteRename are accepted only for a name
\* no live dataset of the author carries
C21_OneLiveDatasetPerName ==
    [][/\ \A b \in Logbooks : UniqueLiveNames(b)
       /\ Handled(ETDatasetNameInit) =>
              NameFree(book, last'.arg.Username, last'.arg.Name)
       /\ Handled(ETDatasetRename) =>
              NameFree(book, book[last'.arg.InitID].Username, last'.arg.NewName)]_vars

\* the logbook a merge step wrote to, after the merge
MergedInto == peers'[last'.arg.to]

\* C22: after a node merges a dataset log, ResolveRef by the (Username, Name)
\* of the log gives on it the InitID and the Path the log has, and merging the
\* same log again changes nothing
C22_MergeConvergesAndIsIdempotent ==
    [][last'.op = "MergeLog" =>
          LET log == last'.arg.log
              id  == last'.arg.InitID
          IN  /\ \A r \in LogbookResolveRefAny(MergedInto, NameQuery(log.Username, log.PrettyName)) :
                     /\ r.err = NoErr
                     /\ r.ref.InitID = id
                     /\ r.ref.Path = (IF log.commits = 0 THEN "" ELSE HeadPaths[log.commits])
              /\ MergeLog(MergedInto, id, log) = MergedInto]_vars

----------------------------------------------------------------------------
(* Publishing: a write appends its op durably, then publishes the event;   *)
(* the bus calls the subscribers from the writer's goroutine                *)

ErrAppendFailed == "append failed"

\* the writes of the logbook
LogbookWrites == LogWrites \cup {"WriteDatasetInit", "WriteDeleteAll"}

\* a write whose durable append publishes an event though it failed
AppendFails_StillPublishes(op, id) ==
    /\ Running
    /\ Live(book, id)
    /\ book' = book
    /\ Publish(Event(ETDatasetDeleteAll, "string", id))

\* a write whose durable append fails: the log keeps its ops, the write
\* returns the error and publishes nothing
AppendFails(op, id) ==
    /\ Running
    /\ IF op = "WriteDatasetInit" THEN book[id].status = "Uninitialized" ELSE Live(book, id)
    /\ last' = [op |-> op, arg |-> id, err |-> ErrAppendFailed, out |-> ErrAppendFailed]
    /\ UNCHANGED <<node, outside>>

NextPublish ==
    \/ \E u \in {"alice", "bob"}, n \in Names : WriteDatasetInit(u, n)
    \/ \E id \in InitIDs : WriteCommit(id)
    \/ \E id \in InitIDs, n \in Names : WriteRename(id, n)
    \/ \E id \in InitIDs : WriteDeleteAll(id)
    \/ \E id \in InitIDs : WriteLink(id)
    \/ \E op \in LogbookWrites, id \in InitIDs : AppendFails(op, id)
    \/ Redeliver

SpecPublish == Init /\ [][NextPublish]_vars

\* the InitID the event a step delivers is about
DeliveredInitID ==
    IF last'.op = ETDatasetDeleteAll THEN last'.arg ELSE last'.arg.InitID

\* the event a step delivers is the one of the op at the head of its log
DeliversHeadOp ==
    LET id == DeliveredInitID
    IN  CASE last'.op = ETDatasetNameInit ->
                 /\ Live(book', id)
                 /\ book'[id].commits = 0
                 /\ book'[id].Username = last'.arg.Username
             [] last'.op = ETLogbookWriteCommit ->
                 /\ Live(book', id)
                 /\ book'[id].commits = last'.arg.CommitCount
                 /\ last'.arg.Path = HeadPathOf(book', id)
             [] last'.op = ETDatasetRename ->
                 /\ Live(book', id)
                 /\ book'[id].PrettyName = last'.arg.NewName
             [] last'.op = ETDatasetDeleteAll -> book'[id].status = "Deleted"
             [] OTHER -> Live(book', id)

\* C23: the subscribers get the events of an InitID in the order its ops were
\* appended: a delivered event is the one of the op at the head of the log,
\* an op that is appended has its event delivered in the same step, and a
\* write whose append fails delivers no event
C23_EventsFollowAppends ==
    [][/\ last'.op \in EventTypes => DeliversHeadOp
       /\ book' # book => (last'.op \in EventTypes /\ book'[DeliveredInitID] # book[DeliveredInitID])
       /\ last'.err = ErrAppendFailed =>
              /\ book' = book
              /\ Root' = Root
              /\ last'.op \notin EventTypes]_vars

\* a write failed on a log that has a commit the cache took
C23_Witness ==
    /\ last.err = ErrAppendFailed
    /\ last.op = "WriteCommit"
    /\ book[last.arg].commits = 1
    /\ Cached(Root, last.arg)

----------------------------------------------------------------------------
(* Logsync over HTTP (src/logbook/logsync/http.go): the registry serves its *)
(* logbook, peers["registry"], to the requests of other nodes               *)

StatusOK == 200
StatusBadRequest == 400
StatusNotFound == 404

\* the bytes of the public keys of the profiles that have one
KeyBytesOf(u) == IF u = "alice" THEN "alice-key" ELSE "bob-key"
KeyHolders == {"alice", "bob"}

\* the values a PubKey header takes: missing, no base64, base64 of bytes that
\* are no key, and the base64 of the two keys
PubKeyHeaders == {"", "not base64!", "bm90IGEga2V5", "YWxpY2Uta2V5", "Ym9iLWtleQ=="}

\* base64.StdEncoding.EncodeToString
Base64Encode(data) ==
    CASE data = "alice-key" -> "YWxpY2Uta2V5"
      [] data = "bob-key"   -> "Ym9iLWtleQ=="
      [] data = "not a key" -> "bm90IGEga2V5"
      [] data = "registry-key" -> "cmVnaXN0cnkta2V5"
      [] OTHER              -> ""

\* base64.StdEncoding.DecodeString: [err, data]
Base64Decode(text) ==
    CASE text = ""             -> [err |-> NoErr, data |-> ""]
      [] text = "YWxpY2Uta2V5" -> [err |-> NoErr, data |-> "alice-key"]
      [] text = "Ym9iLWtleQ==" -> [err |-> NoErr, data |-> "bob-key"]
      [] text = "bm90IGEga2V5" -> [err |-> NoErr, data |-> "not a key"]
      [] text = "cmVnaXN0cnkta2V5" -> [err |-> NoErr, data |-> "registry-key"]
      [] OTHER                 -> [err |-> "illegal base64 data", data |-> ""]

\* crypto.UnmarshalPublicKey: [err, key]
UnmarshalPublicKey(data) ==
    IF data = "registry-key" \/ \E u \in KeyHolders : data = KeyBytesOf(u)
    THEN [err |-> NoErr, key |-> data]
    ELSE [err |-> "malformed public key", key |-> ""]

\* log.NewAuthor
NewAuthor(id, pub) == [AuthorID |-> id, PubKey |-> pub]
NoAuthor == NewAuthor("", "")

\* the author a profile is as a sender of requests
AuthorOf(u) == NewAuthor(ProfileIDOf(u), KeyBytesOf(u))

\* Logsync.Author of the registry
ServerAuthor == NewAuthor("QmRegistry", "registry-key")

\* addAuthorHTTPHeaders
addAuthorHTTPHeaders(author) ==
    [AuthorID |-> author.AuthorID, PubKey |-> Base64Encode(author.PubKey)]
NoHeaders == [AuthorID |-> "", PubKey |-> ""]

\* senderFromHTTPHeaders that takes any decoded bytes for a key
senderFromHTTPHeaders_AnyBytes(h) ==
    LET dec == Base64Decode(h.PubKey)
    IN  IF dec.err # NoErr
        THEN [err |-> dec.err, sender |-> NoAuthor]
        ELSE [err |-> NoErr, sender |-> NewAuthor(h.AuthorID, dec.data)]

\* senderFromHTTPHeaders: [err, sender]
senderFromHTTPHeaders(h) ==
    LET dec == Base64Decode(h.PubKey)
    IN  IF dec.err # NoErr
        THEN [err |-> dec.err, sender |-> NoAuthor]
        ELSE LET pub == UnmarshalPublicKey(dec.data)
             IN  IF pub.err # NoErr
                 THEN [err |-> "decoding public key", sender |-> NoAuthor]
                 ELSE [err |-> NoErr, sender |-> NewAuthor(h.AuthorID, pub.key)]

\* the values of the ref parameter: missing, unparseable, and the names
RefParams == {"", "alice world_bank", "alice/world_bank", "alice/wbp"}

\* repo.ParseDatasetRef, then repo.ConvertToDsref: [err, ref]
ParseDatasetRef(text) ==
    CASE text = "" -> [err |-> "repo: empty dataset reference", ref |-> ZeroRef]
      [] text = "alice/world_bank" -> [err |-> NoErr, ref |-> NameQuery("alice", "world_bank")]
      [] text = "alice/wbp" -> [err |-> NoErr, ref |-> NameQuery("alice", "wbp")]
      [] OTHER -> [err |-> "malformed DatasetRef string", ref |-> ZeroRef]

\* the body of a PUT: the log of a dataset and the key its ops are signed with
NoBody == [InitID |-> "", log |-> NoLog, signedWith |-> ""]

ErrVerify == "verifying log signature"
ErrNotAuthor == "authors can only remove logs they own"
ErrLogNotFound == "log: not found"

\* Logsync.put: verifies the log against the sender, then merges it
lsyncPut(b, sender, body) ==
    IF \/ body.InitID = ""
       \/ body.signedWith # sender.PubKey
       \/ ProfileIDOf(body.log.Username) # sender.AuthorID
    THEN {[err |-> ErrVerify, book |-> b]}
    ELSE {[err |-> NoErr, book |-> MergeLog(b, body.InitID, body.log)]}

\* Logsync.get: the log of the dataset the ref names
lsyncGet(b, sender, ref) ==
    LET hits == LiveByName(b, ref.Username, ref.Name)
    IN  IF hits = {}
        THEN {[err |-> ErrLogNotFound, book |-> b]}
        ELSE {[err |-> NoErr, book |-> b] : id \in hits}

\* Logsync.del: removes the log of the dataset the ref names when the sender
\* is its author
lsyncDel(b, sender, ref) ==
    LET hits == LiveByName(b, ref.Username, ref.Name)
    IN  IF hits = {}
        THEN {[err |-> ErrLogNotFound, book |-> b]}
        ELSE {IF ProfileIDOf(b[id].Username) # sender.AuthorID
              THEN [err |-> ErrNotAuthor, book |-> b]
              ELSE [err |-> NoErr, book |-> [b EXCEPT ![id].status = "Deleted", ![id].commits = 0]] :
                  id \in hits}

\* a response: the status, the error text of the body, the response headers,
\* the Logsync operations the handler called and the logbook it leaves
Response(status, err, headers, calls, b) ==
    [status |-> status, err |-> err, headers |-> headers, calls |-> calls, book |-> b]

BadRequest(err, calls, b) == Response(StatusBadRequest, err, NoHeaders, calls, b)

\* HTTPHandler(lsync): the responses to a request r on the logbook b
HTTPHandler(b, r) ==
    LET s == senderFromHTTPHeaders(r.Header)
    IN  IF s.err # NoErr
        THEN {BadRequest(s.err, <<>>, b)}
        ELSE
        CASE r.Method = "PUT" ->
             {IF o.err # NoErr
              THEN BadRequest(o.err, <<"put">>, o.book)
              ELSE Response(StatusOK, NoErr, addAuthorHTTPHeaders(ServerAuthor), <<"put">>, o.book) :
                  o \in lsyncPut(b, s.sender, r.Body)}
          [] r.Method = "GET" ->
             LET p == ParseDatasetRef(r.ref)
             IN  IF p.err # NoErr
                 THEN {BadRequest(p.err, <<>>, b)}
                 ELSE {IF o.err # NoErr
                       THEN BadRequest(o.err, <<"get">>, o.book)
                       ELSE Response(StatusOK, NoErr, addAuthorHTTPHeaders(ServerAuthor),
                                     <<"get">>, o.book) :
                           o \in lsyncGet(b, s.sender, p.ref)}
          [] r.Method = "DELETE" ->
             LET p == ParseDatasetRef(r.ref)
             IN  IF p.err # NoErr
                 THEN {BadRequest(p.err, <<>>, b)}
                 ELSE {IF o.err # NoErr
                       THEN BadRequest(o.err, <<"del">>, o.book)
                       ELSE Response(StatusOK, NoErr, addAuthorHTTPHeaders(ServerAuthor),
                                     <<"del">>, o.book) :
                           o \in lsyncDel(b, s.sender, p.ref)}
          [] OTHER -> {Response(StatusOK, NoErr, NoHeaders, <<>>, b)}

\* the values of the AuthorID header
AuthorIDs == {ProfileIDOf("alice"), ProfileIDOf("bob")}

RequestHeaders == [AuthorID : AuthorIDs, PubKey : PubKeyHeaders]

\* a request
Request(method, header, ref, body) ==
    [Method |-> method, Header |-> header, ref |-> ref, Body |-> body]

\* the body a node sends to push the log of its dataset id
BodyOf(b, id) ==
    [InitID |-> id, log |-> b[id], signedWith |-> KeyBytesOf(b[id].Username)]

\* the registry serves one request
Serve(r) ==
    /\ Running
    /\ \E o \in HTTPHandler(peers["registry"], r) :
           /\ peers' = [peers EXCEPT !["registry"] = o.book]
           /\ last' = [op |-> "HTTP", arg |-> r, err |-> o.err,
                       out |-> [status |-> o.status, calls |-> o.calls, headers |-> o.headers]]
    /\ UNCHANGED <<node, workflows, services>>

\* HTTPClient.put, get and del, and a request of another method
ClientPut(h, id) == HasDatasetRef(book, id) /\ Serve(Request("PUT", h, "", BodyOf(book, id)))
ClientGet(h, ref) == Serve(Request("GET", h, ref, NoBody))
ClientDel(h, ref) == Serve(Request("DELETE", h, ref, NoBody))
ClientPost(h) == Serve(Request("POST", h, "", NoBody))

NextLogsync ==
    \/ \E n \in Names : WriteDatasetInit("alice", n)
    \/ \E id \in InitIDs : WriteDeleteAll(id)
    \/ \E h \in RequestHeaders, id \in InitIDs : ClientPut(h, id)
    \/ \E h \in RequestHeaders, ref \in RefParams : ClientGet(h, ref)
    \/ \E h \in RequestHeaders, ref \in RefParams : ClientDel(h, ref)
    \/ \E h \in RequestHeaders : ClientPost(h)

SpecLogsync == Init /\ [][NextLogsync]_vars

\* the step, or the last call, is a request the registry served
Served == last.op = "HTTP"

\* the PubKey header is the base64 of the key of a profile
KeyHeaderOf(h, u) == h.PubKey = Base64Encode(KeyBytesOf(u))
ValidPubKey(h) == \E u \in KeyHolders : KeyHeaderOf(h, u)

\* the AuthorID header and the PubKey header name the same profile
HeadersAgree(h) == \E u \in KeyHolders : KeyHeaderOf(h, u) /\ h.AuthorID = ProfileIDOf(u)

\* the ref parameters that parse
WellFormedRefs == {"alice/world_bank", "alice/wbp"}

\* the live datasets of the registry a ref parameter names
NamedAtRegistry(b, text) ==
    CASE text = "alice/world_bank" -> LiveByName(b, "alice", "world_bank")
      [] text = "alice/wbp"        -> LiveByName(b, "alice", "wbp")
      [] OTHER                     -> {}

\* C24: a request with a PubKey header that is no base64 or no public key, or
\* a GET or DELETE with a missing or unparseable ref, is answered 400 and
\* none of put, get, del is performed
C24_InvalidRequestIs400 ==
    [][(/\ last'.op = "HTTP"
        /\ \/ ~ValidPubKey(last'.arg.Header)
           \/ /\ last'.arg.Method \in {"GET", "DELETE"}
              /\ last'.arg.ref \notin WellFormedRefs) =>
          /\ last'.out.status = StatusBadRequest
          /\ last'.out.calls = <<>>
          /\ peers' = peers]_vars

\* a DELETE without ref by the author of a dataset the registry holds
C24_Witness ==
    /\ Served
    /\ last.arg.Method = "DELETE"
    /\ last.arg.Header = addAuthorHTTPHeaders(AuthorOf("alice"))
    /\ last.arg.ref = ""
    /\ last.out.status = StatusBadRequest
    /\ \E id \in InitIDs : Live(peers["registry"], id)

\* C25: a GET or DELETE with a well-formed ref that names no dataset of the
\* registry is answered 404
C25_UnknownRefIs404 ==
    [][(/\ last'.op = "HTTP"
        /\ last'.arg.Method \in {"GET", "DELETE"}
        /\ HeadersAgree(last'.arg.Header)
        /\ last'.arg.ref \in WellFormedRefs
        /\ NamedAtRegistry(peers["registry"], last'.arg.ref) = {}) =>
          last'.out.status = StatusNotFound]_vars

\* C26: a PUT, GET or DELETE whose AuthorID header is not the one of the key
\* in its PubKey header is answered 400, and none of put, get, del is
\* performed
C26_MismatchedSenderIs400 ==
    (/\ Served
     /\ last.arg.Method \in {"PUT", "GET", "DELETE"}
     /\ ValidPubKey(last.arg.Header)
     /\ ~HeadersAgree(last.arg.Header)) =>
        /\ last.out.status = StatusBadRequest
        /\ last.out.calls = <<>>

\* C27: a DELETE removes a log only when the sender its headers name is the
\* author of the log; a DELETE by any other sender leaves the logbook of the
\* registry as it was and is answered with an error status
C27_OnlyAuthorDeletes ==
    [][(last'.op = "HTTP" /\ last'.arg.Method = "DELETE") =>
          LET b == peers["registry"]
              h == last'.arg.Header
              named == NamedAtRegistry(b, last'.arg.ref)
              IsAuthor(id) == h = addAuthorHTTPHeaders(AuthorOf(b[id].Username))
          IN  /\ \A id \in InitIDs :
                     peers'["registry"][id] # b[id] => (id \in named /\ IsAuthor(id))
              /\ (\A id \in named : ~IsAuthor(id)) =>
                     /\ peers' = peers
                     /\ last'.out.status # StatusOK]_vars

----------------------------------------------------------------------------
(* The workflow store, as AssertWorkflowStore and AssertWorkflowLister      *)
(* require a workflow.Store to behave.  A store is the record               *)
(* [wfs, minted, clock, puts]; wfs holds at most one workflow per ID.       *)

ErrNotFound == "ErrNotFound"
ErrWorkflowForDatasetExists == "ErrWorkflowForDatasetExists"
ErrLimitOutOfBounds(n) == "limit of " \o ToString(n) \o " is out of bounds"
ErrOffsetOutOfBounds(n) == "offset of " \o ToString(n) \o " is out of bounds"

\* params.ListAll
ListAll == -1

\* the IDs of the stored workflows
StoredIDs(store) == {w.ID : w \in store.wfs}

\* the IDs the store handed out so far
MintedIDs(store) == {WorkflowIDNames[i] : i \in 1..store.minted}

\* workflow.NewID: the next ID
NewID(store) == WorkflowIDNames[store.minted + 1]

\* the store after wf is added to it, next to the workflow its ID had
Stored_KeepsOld(store, wf) ==
    [store EXCEPT !.wfs = @ \cup {wf},
                  !.puts[wf.ID] = wf]

\* the store after wf is stored under its ID
Stored(store, wf) ==
    [store EXCEPT !.wfs = {v \in @ : v.ID # wf.ID} \cup {wf},
                  !.puts[wf.ID] = wf]

\* Store.Put: the outcomes [err, out, store].  A workflow without an ID is a
\* new workflow: it is refused when its InitID has a workflow, and gets a new
\* ID otherwise.  A workflow with an ID replaces the workflow of that ID;
\* when another workflow has its InitID the store may refuse it or store it.
Put(store, wf) ==
    LET byInit == {w \in store.wfs : w.InitID = wf.InitID}
        refused == [err |-> ErrWorkflowForDatasetExists, out |-> NoWorkflow, store |-> store]
        new == [wf EXCEPT !.ID = NewID(store)]
    IN  IF wf.ID = ""
        THEN IF byInit # {}
             THEN {refused}
             ELSE {[err |-> NoErr, out |-> new,
                    store |-> [Stored(store, new) EXCEPT !.minted = @ + 1]]}
        ELSE {[err |-> NoErr, out |-> wf, store |-> Stored(store, wf)]}
             \cup (IF \E w \in byInit : w.ID # wf.ID THEN {refused} ELSE {})

\* Store.Get: [err, out]
Get(store, id) ==
    IF \E w \in store.wfs : w.ID = id
    THEN [err |-> NoErr, out |-> CHOOSE w \in store.wfs : w.ID = id]
    ELSE [err |-> ErrNotFound, out |-> NoWorkflow]

\* Store.GetByInitID: the outcomes [err, out]
GetByInitID(store, initID) ==
    LET byInit == {w \in store.wfs : w.InitID = initID}
    IN  IF byInit = {}
        THEN {[err |-> ErrNotFound, out |-> NoWorkflow]}
        ELSE {[err |-> NoErr, out |-> w] : w \in byInit}

\* Store.Remove: [err, store]
Remove(store, id) ==
    IF id \in StoredIDs(store)
    THEN [err |-> NoErr,
          store |-> [store EXCEPT !.wfs = {w \in @ : w.ID # id}, !.puts[id] = NoWorkflow]]
    ELSE [err |-> ErrNotFound, store |-> store]

\* the workflows of S, the one created last first
RECURSIVE SortByCreated(_)
SortByCreated(S) ==
    IF S = {}
    THEN <<>>
    ELSE LET newest == CHOOSE w \in S : \A v \in S : v.Created <= w.Created
         IN  <<newest>> \o SortByCreated(S \ {newest})

\* ListWindow that answers a limit of 0 before it looks at the offset
ListWindow_ZeroLimitFirst(all, offset, limit) ==
    IF limit < ListAll
    THEN [err |-> ErrLimitOutOfBounds(limit), out |-> <<>>]
    ELSE IF limit = 0
    THEN [err |-> NoErr, out |-> <<>>]
    ELSE IF offset < 0
    THEN [err |-> ErrOffsetOutOfBounds(offset), out |-> <<>>]
    ELSE IF offset >= Len(all)
    THEN [err |-> NoErr, out |-> <<>>]
    ELSE LET end == IF limit = ListAll \/ offset + limit > Len(all)
                    THEN Len(all)
                    ELSE offset + limit
         IN  [err |-> NoErr, out |-> SubSeq(all, offset + 1, end)]

\* params.List applied to a listing: [err, out]
ListWindow(all, offset, limit) ==
    IF limit < ListAll
    THEN [err |-> ErrLimitOutOfBounds(limit), out |-> <<>>]
    ELSE IF offset < 0
    THEN [err |-> ErrOffsetOutOfBounds(offset), out |-> <<>>]
    ELSE IF offset >= Len(all) \/ limit = 0
    THEN [err |-> NoErr, out |-> <<>>]
    ELSE LET end == IF limit = ListAll \/ offset + limit > Len(all)
                    THEN Len(all)
                    ELSE offset + limit
         IN  [err |-> NoErr, out |-> SubSeq(all, offset + 1, end)]

\* Store.List
List(store, offset, limit) == ListWindow(SortByCreated(store.wfs), offset, limit)

\* ListDeployed that takes the page of all workflows and keeps its active ones
ListDeployed_WindowThenFilter(store, offset, limit) ==
    LET page == List(store, offset, limit)
        IsActive(w) == w.Active
    IN  [page EXCEPT !.out = SelectSeq(@, IsActive)]

\* Store.ListDeployed
ListDeployed(store, offset, limit) ==
    ListWindow(SortByCreated({w \in store.wfs : w.Active}), offset, limit)

\* the datasets AssertWorkflowStore and AssertWorkflowLister put workflows for
StoreInitIDs == {"alice_dataset_id", "britt_dataset_id"}
ListerInitIDs == {"dataset_" \o ToString(i) : i \in 0..(MaxWorkflows - 1)}

\* the offsets and limits the callers list with
ListOffsets == -1..MaxWorkflows
ListLimits == -2..MaxWorkflows

\* a caller puts a workflow: a new one is created now, a stored one keeps
\* the instant it was created at
StorePut(id, initID, active) ==
    LET known == {w \in workflows.wfs : w.ID = id}
        created == IF known = {} THEN workflows.clock + 1 ELSE (CHOOSE w \in known : TRUE).Created
        wf == [ID |-> id, InitID |-> initID, Active |-> active, Created |-> created]
    IN  /\ Running
        /\ id # "" => id \in MintedIDs(workflows)
        /\ id = "" => workflows.minted < MaxWorkflows
        /\ created <= MaxCreated
        /\ \E o \in Put(workflows, wf) :
               /\ workflows' = [o.store EXCEPT !.clock = IF known = {} /\ o.err = NoErr THEN created ELSE @]
               /\ last' = [op |-> "Put", arg |-> wf, err |-> o.err, out |-> o.out]
        /\ UNCHANGED <<node, peers, services>>

StoreGet(id) ==
    /\ Running
    /\ LET o == Get(workflows, id)
       IN  last' = [op |-> "Get", arg |-> id, err |-> o.err, out |-> o.out]
    /\ UNCHANGED <<node, outside>>

StoreGetByInitID(initID) ==
    /\ Running
    /\ \E o \in GetByInitID(workflows, initID) :
           last' = [op |-> "GetByInitID", arg |-> initID, err |-> o.err, out |-> o.out]
    /\ UNCHANGED <<node, outside>>

StoreRemove(id) ==
    /\ Running
    /\ LET o == Remove(workflows, id)
       IN  /\ workflows' = o.store
           /\ last' = [op |-> "Remove", arg |-> id, err |-> o.err, out |-> <<>>]
    /\ UNCHANGED <<node, peers, services>>

StoreList(offset, limit) ==
    /\ Running
    /\ LET o == List(workflows, offset, limit)
       IN  last' = [op |-> "List", arg |-> [offset |-> offset, limit |-> limit],
                    err |-> o.err, out |-> o.out]
    /\ UNCHANGED <<node, outside>>

StoreListDeployed(offset, limit) ==
    /\ Running
    /\ LET o == ListDeployed(workflows, offset, limit)
       IN  last' = [op |-> "ListDeployed", arg |-> [offset |-> offset, limit |-> limit],
                    err |-> o.err, out |-> o.out]
    /\ UNCHANGED <<node, outside>>

\* the caller sets Active on the workflow Put returned: the store lists it
\* as the caller left it
SetActive ==
    /\ Running
    /\ last.op = "Put"
    /\ last.err = NoErr
    /\ last.out \in workflows.wfs
    /\ ~last.out.Active
    /\ workflows' = [workflows EXCEPT !.wfs = (@ \ {last.out}) \cup {[last.out EXCEPT !.Active = TRUE]}]
    /\ last' = [op |-> "SetActive", arg |-> last.out.ID, err |-> NoErr, out |-> <<>>]
    /\ UNCHANGED <<node, peers, services>>

\* the operations of AssertWorkflowStore
NextWorkflows ==
    \/ \E id \in {""} \cup WorkflowIDs, initID \in StoreInitIDs, active \in BOOLEAN :
           StorePut(id, initID, active)
    \/ \E id \in WorkflowIDs : StoreGet(id)
    \/ \E initID \in StoreInitIDs : StoreGetByInitID(initID)
    \/ \E id \in WorkflowIDs : StoreRemove(id)

SpecWorkflows == Init /\ [][NextWorkflows]_vars

\* the operations of AssertWorkflowLister
NextLister ==
    \/ \E initID \in ListerInitIDs : StorePut("", initID, FALSE)
    \/ SetActive
    \/ \E offset \in ListOffsets, limit \in ListLimits : StoreList(offset, limit)
    \/ \E offset \in ListOffsets, limit \in ListLimits : StoreListDeployed(offset, limit)

SpecLister == Init /\ [][NextLister]_vars

\* the workflow the history of Puts and Removes leaves for an ID, if any
LastPut(id) == workflows.puts[id]
HasLastPut(id) == LastPut(id) # NoWorkflow

\* C29: the workflow store behaves as a map keyed by workflow ID.  A Put of a
\* workflow without an ID returns it with a new ID that is not empty and that
\* the store never handed out; a Put with an ID replaces the workflow of that
\* ID and leaves the others alone; Get(ID) and GetByInitID(InitID) return the
\* workflow as the last Put of its ID gave it, and ErrNotFound when no Put of
\* a workflow of that ID, or that InitID, is left; after Remove(ID), Get(ID)
\* returns ErrNotFound
C29_StoreIsMapByID ==
    [][LET call == last'
           rest == {w \in workflows.wfs : w.ID # call.out.ID}
       IN  /\ (call.op = "Put" /\ call.err = NoErr) =>
                  /\ call.out.ID # ""
                  /\ call.arg.ID = "" => call.out.ID \notin MintedIDs(workflows)
                  /\ call.arg.ID # "" => call.out.ID = call.arg.ID
                  /\ call.out = [call.arg EXCEPT !.ID = call.out.ID]
                  /\ workflows'.wfs = rest \cup {call.out}
                  /\ Get(workflows', call.out.ID) = [err |-> NoErr, out |-> call.out]
           /\ call.op = "Get" =>
                  IF HasLastPut(call.arg)
                  THEN call.err = NoErr /\ call.out = LastPut(call.arg)
                  ELSE call.err = ErrNotFound
           /\ call.op = "GetByInitID" =>
                  IF \E id \in WorkflowIDs : HasLastPut(id) /\ LastPut(id).InitID = call.arg
                  THEN /\ call.err = NoErr
                       /\ call.out.InitID = call.arg
                       /\ call.out = LastPut(call.out.ID)
                  ELSE call.err = ErrNotFound
           /\ (call.op = "Remove" /\ call.err = NoErr) =>
                  /\ Get(workflows', call.arg).err = ErrNotFound
                  /\ workflows'.wfs = {w \in workflows.wfs : w.ID # call.arg}]_vars

\* Get returned an active workflow as it was last Put, in a store that handed
\* out three IDs and lost one of its workflows to Remove
C29_Witness ==
    /\ last.op = "Get"
    /\ last.err = NoErr
    /\ last.out.Active
    /\ last.out = LastPut(last.arg)
    /\ workflows.minted = MaxWorkflows
    /\ \E id \in MintedIDs(workflows) : id \notin StoredIDs(workflows)

\* the number of workflows of S created after w
Newer(S, w) == Cardinality({v \in S : v.Created > w.Created})

\* out is the page of S, listed newest first, that offset and limit ask for
IsPage(out, S, offset, limit) ==
    LET n == Cardinality(S)
        end == IF limit = ListAll \/ offset + limit > n THEN n ELSE offset + limit
    IN  /\ Len(out) = IF end > offset THEN end - offset ELSE 0
        /\ \A i \in 1..Len(out) : out[i] \in S /\ Newer(S, out[i]) = offset + i - 1

\* the pages of List and of ListDeployed from offset on, one after the other
RECURSIVE ListPages(_, _, _)
ListPages(store, offset, limit) ==
    LET page == List(store, offset, limit).out
    IN  IF page = <<>> THEN <<>> ELSE page \o ListPages(store, offset + limit, limit)

RECURSIVE ListDeployedPages(_, _, _)
ListDeployedPages(store, offset, limit) ==
    LET page == ListDeployed(store, offset, limit).out
    IN  IF page = <<>> THEN <<>> ELSE page \o ListDeployedPages(store, offset + limit, limit)

\* C30: with an offset >= 0 and a limit >= -1, List returns without error the
\* workflows at positions offset .. min(offset+limit, n)-1 of the n stored
\* workflows listed newest first: everything from offset on when the limit is
\* -1, nothing when the limit is 0 or the offset is n or more.  ListDeployed
\* returns the same window of the workflows whose Active flag is set.  The
\* pages of one limit, one after the other, are the full listing
C30_ListReturnsTheWindow ==
    LET deployed == {w \in workflows.wfs : w.Active}
    IN  /\ (last.op \in {"List", "ListDeployed"} /\ last.arg.offset >= 0 /\ last.arg.limit >= ListAll) =>
               /\ last.err = NoErr
               /\ last.op = "List" =>
                      IsPage(last.out, workflows.wfs, last.arg.offset, last.arg.limit)
               /\ last.op = "ListDeployed" =>
                      IsPage(last.out, deployed, last.arg.offset, last.arg.limit)
               /\ (last.arg.limit = 0 \/ last.arg.offset >= Cardinality(workflows.wfs)) =>
                      last.out = <<>>
        /\ \A limit \in 1..MaxWorkflows :
               /\ ListPages(workflows, 0, limit) = List(workflows, 0, ListAll).out
               /\ ListDeployedPages(workflows, 0, limit) = ListDeployed(workflows, 0, ListAll).out
        /\ Len(List(workflows, 0, ListAll).out) = Cardinality(workflows.wfs)
        /\ Len(ListDeployed(workflows, 0, ListAll).out) = Cardinality(deployed)

\* ListDeployed returned the second page of one workflow, and a workflow that
\* is not active is newer than the workflow of that page
C30_Witness ==
    /\ last.op = "ListDeployed"
    /\ last.arg = [offset |-> 1, limit |-> 1]
    /\ Len(last.out) = 1
    /\ Cardinality(workflows.wfs) = MaxWorkflows
    /\ \E w \in workflows.wfs : ~w.Active /\ w.Created > last.out[1].Created

\* C31: List and ListDeployed fail with "limit of <n> is out of bounds" when
\* the limit is below -1 and with "offset of <n> is out of bounds" when the
\* offset is below 0, and return no items, whatever the store holds; when
\* both are out of bounds the error is one of the two
C31_ListBoundsErrors ==
    last.op \in {"List", "ListDeployed"} =>
        LET offset == last.arg.offset
            limit == last.arg.limit
        IN  /\ (limit < -1 /\ offset >= 0) => last.err = ErrLimitOutOfBounds(limit)
            /\ (offset < 0 /\ limit >= -1) => last.err = ErrOffsetOutOfBounds(offset)
            /\ (limit < -1 /\ offset < 0) =>
                   last.err \in {ErrLimitOutOfBounds(limit), ErrOffsetOutOfBounds(offset)}
            /\ (limit < -1 \/ offset < 0) => last.out = <<>>

\* ListDeployed refused an offset of -1 with a limit of 0, in a store that
\* holds an active workflow
C31_Witness ==
    /\ last.op = "ListDeployed"
    /\ last.arg = [offset |-> -1, limit |-> 0]
    /\ last.err = "offset of -1 is out of bounds"
    /\ \E w \in workflows.wfs : w.Active

----------------------------------------------------------------------------
(* The runtime listener, as TestRuntimeListener and TestRuntimeListenerListen *)
(* require it to behave.  The listener is a function from (OwnerID,           *)
(* WorkflowID) to the IDs of the active triggers it listens for.              *)

\* trigger.NewEmptyRuntimeTrigger, SetActive and ToMap: a trigger is [id, active]
Trigger(id, active) == [id |-> id, active |-> active]

\* the Triggers lists the sources carry
TriggerLists ==
    { <<>>,
      <<Trigger("trig1", FALSE)>>,
      <<Trigger("trig1", TRUE)>>,
      <<Trigger("trig2", TRUE)>>,
      <<Trigger("trig1", TRUE), Trigger("trig2", FALSE)>>,
      <<Trigger("trig1", TRUE), Trigger("trig2", TRUE)>> }

\* trigger.Source: a workflow with its owner, its ID and its triggers
Sources == [OwnerID : OwnerIDs, WorkflowID : SourceIDs, Triggers : TriggerLists]

\* Source.Owner and Source.WorkflowID
SourceKey(source) == <<source.OwnerID, source.WorkflowID>>

\* Source.ActiveTriggers: the IDs of the triggers that are active, in order
ActiveTriggers(source) ==
    LET IsActive(t) == t.active
        active == SelectSeq(source.Triggers, IsActive)
    IN  [i \in 1..Len(active) |-> active[i].id]

\* the listener after it took the triggers of every workflow with the ID of source
Listening_ByWorkflowID(l, source) ==
    [k \in SourceKeys |-> IF k[2] = source.WorkflowID THEN ActiveTriggers(source) ELSE l[k]]

\* the listener after it took the triggers of one source
Listening(l, source) ==
    [l EXCEPT ![SourceKey(source)] = ActiveTriggers(source)]

\* RuntimeListener.Listen: the sources one after the other
RECURSIVE Listen(_, _)
Listen(l, sources) ==
    IF sources = <<>>
    THEN l
    ELSE Listen(Listening(l, Head(sources)), Tail(sources))

\* RuntimeListener.TriggersExists
TriggersExists(l, source) ==
    /\ l[SourceKey(source)] # <<>>
    /\ l[SourceKey(source)] = ActiveTriggers(source)

\* the lists of sources a caller listens with: one source, or two workflows
SourceLists ==
    {<<x>> : x \in {y \in Sources : SourceKey(y) \in SourceKeys}}
    \cup {<<x, y>> : x \in {z \in Sources : SourceKey(z) \in SourceKeys},
                     y \in {z \in Sources : SourceKey(z) \in SourceKeys /\ SourceKey(z) # <<"a", "workflow 1">>}}

DoListen(sources) ==
    /\ Running
    /\ listener' = Listen(listener, sources)
    /\ last' = [op |-> "Listen", arg |-> sources, err |-> NoErr, out |-> <<>>]
    /\ UNCHANGED <<node, peers, workflows, pending, shutdown>>

DoTriggersExists(source) ==
    /\ Running
    /\ SourceKey(source) \in SourceKeys
    /\ last' = [op |-> "TriggersExists", arg |-> source, err |-> NoErr,
                out |-> TriggersExists(listener, source)]
    /\ UNCHANGED <<node, outside>>

NextListener ==
    \/ \E sources \in SourceLists : DoListen(sources)
    \/ \E source \in Sources : DoTriggersExists(source)

SpecListener == Init /\ [][NextListener]_vars

\* the positions of the sources of key k in a list of sources
Given(sources, k) == {i \in 1..Len(sources) : SourceKey(sources[i]) = k}
LastOf(S) == CHOOSE i \in S : \A j \in S : j <= i

\* C32: Listen replaces the stored triggers of each (OwnerID, WorkflowID) it
\* is given with the active triggers of that workflow, leaving no entry when
\* it has none, and changes nothing else: the triggers of every workflow not
\* among the sources stay as they were, also of one with the same WorkflowID
\* and another owner.  TriggersExists changes nothing, and is true exactly
\* when an entry is stored for the workflow and it equals the workflow's
\* active triggers
C32_ListenReplacesOnlyTheSources ==
    [][/\ last'.op = "Listen" =>
              \A k \in SourceKeys :
                  LET given == Given(last'.arg, k)
                  IN  IF given = {}
                      THEN listener'[k] = listener[k]
                      ELSE LET source == last'.arg[LastOf(given)]
                           IN  /\ listener'[k] = ActiveTriggers(source)
                               /\ TriggersExists(listener', source) <=>
                                      (\E i \in 1..Len(source.Triggers) : source.Triggers[i].active)
       /\ last'.op = "TriggersExists" =>
              /\ listener' = listener
              /\ last'.out <=> /\ listener[SourceKey(last'.arg)] # <<>>
                               /\ listener[SourceKey(last'.arg)] = ActiveTriggers(last'.arg)]_vars

\* Listen took a workflow of owner b while the workflow of the same ID of
\* owner a stays registered with two triggers
C32_Witness ==
    /\ last.op = "Listen"
    /\ Len(last.arg) = 2
    /\ SourceKey(last.arg[1]) = <<"b", "workflow 1">>
    /\ listener[<<"b", "workflow 1">>] = <<"trig1">>
    /\ listener[<<"a", "workflow 1">>] = <<"trig1", "trig2">>
    /\ listener[<<"a", "workflow 2">>] # <<>>

----------------------------------------------------------------------------
(* QriNode.ConnectToPeer.  What the network answers is an input: net is the *)
(* record [found, connect, request, profile] of the routing lookup, of      *)
(* host.Connect, of QriProfileRequest and of ConnectedPeerProfile.          *)

\* the peer of bob, which the peerstore knows, and a peer it does not know
BobPeerID == "QmBobPeer"
StrangerPeerID == "QmStrangerPeer"
BobMultiaddr == "/ip4/10.0.0.2/tcp/4001/p2p/QmBobPeer"

NilProfile == "nil"
NoPeerInfo == ""
ErrNotFoundInStore == "profile: not found"
ErrRouting == "routing: not found"

\* profile.Store.PeernameID and PeerIDs: bob is the one peer the store knows
PeernameID(peername) ==
    IF peername = "bob"
    THEN [err |-> NoErr, id |-> ProfileIDOf("bob")]
    ELSE [err |-> ErrNotFoundInStore, id |-> ""]
PeerIDs(proID) == IF proID = ProfileIDOf("bob") THEN <<BobPeerID>> ELSE <<>>

\* getPeerInfo: the peerstore, then the routing table: [err, ID]
getPeerInfo(pid, net) ==
    IF pid = BobPeerID
    THEN [err |-> NoErr, ID |-> pid]
    ELSE IF net.found
         THEN [err |-> NoErr, ID |-> pid]
         ELSE [err |-> ErrRouting, ID |-> NoPeerInfo]

\* peerConnectionParamsToPeerInfo: [err, ID]
peerConnectionParamsToPeerInfo(p, net) ==
    IF p.Multiaddr # ""
    THEN [err |-> NoErr, ID |-> BobPeerID]
    ELSE IF p.PeerID # ""
    THEN getPeerInfo(p.PeerID, net)
    ELSE LET named == IF p.ProfileID = "" /\ p.Peername # ""
                      THEN PeernameID(p.Peername)
                      ELSE [err |-> NoErr, id |-> p.ProfileID]
             ids == PeerIDs(named.id)
         IN  IF named.err # NoErr
             THEN [err |-> named.err, ID |-> NoPeerInfo]
             ELSE IF Len(ids) = 0
             THEN [err |-> "no network info for " \o named.id, ID |-> NoPeerInfo]
             ELSE getPeerInfo(ids[1], net)

\* QriNode.ConnectToPeer: [err, pro].  The err tested after
\* ConnectedPeerProfile is the one peerConnectionParamsToPeerInfo returned:
\* the errors of Connect and QriProfileRequest live in their if statements
ConnectToPeer(p, net) ==
    LET pinfo == peerConnectionParamsToPeerInfo(p, net)
        err == pinfo.err
    IN  IF err # NoErr
        THEN [err |-> err, pro |-> NilProfile]
        ELSE IF net.connect # NoErr
        THEN [err |-> "host connect " \o pinfo.ID \o " failure: " \o net.connect, pro |-> NilProfile]
        ELSE IF net.request # NoErr
        THEN [err |-> "error establishing qri connections: " \o net.request, pro |-> NilProfile]
        ELSE LET pro == net.profile
             IN  IF err = NoErr
                 THEN [err |-> "unable to get profile from peer " \o pinfo.ID, pro |-> NilProfile]
                 ELSE [err |-> NoErr, pro |-> pro]

\* PeerConnectionParams and the answers of the network
PeerConnectionParams ==
    [Peername : {"", "bob", "nobody"},
     ProfileID : {"", ProfileIDOf("bob"), ProfileIDOf("alice")},
     PeerID : {"", BobPeerID, StrangerPeerID},
     Multiaddr : {"", BobMultiaddr}]
NetworkAnswers ==
    [found : BOOLEAN,
     connect : {NoErr, "dial backoff"},
     request : {NoErr, "stream reset"},
     profile : {NilProfile, "bob"}]

DoConnectToPeer(p, net) ==
    /\ Running
    /\ LET o == ConnectToPeer(p, net)
       IN  last' = [op |-> "ConnectToPeer", arg |-> [p |-> p, net |-> net],
                    err |-> o.err, out |-> o.pro]
    /\ UNCHANGED <<node, outside>>

NextConnect == \E p \in PeerConnectionParams, net \in NetworkAnswers : DoConnectToPeer(p, net)

SpecConnect == Init /\ [][NextConnect]_vars

\* C33: when the peer info resolves and the host connection and the profile
\* request both succeed, ConnectToPeer returns the profile of the connected
\* peer and a nil error; it returns an error only when resolving the peer
\* info, connecting, or the profile request fails
C33_ConnectReturnsProfile ==
    last.op = "ConnectToPeer" =>
        LET net == last.arg.net
            resolved == peerConnectionParamsToPeerInfo(last.arg.p, net).err = NoErr
            succeeded == resolved /\ net.connect = NoErr /\ net.request = NoErr
        IN  /\ succeeded => (last.err = NoErr /\ last.out = net.profile)
            /\ last.err # NoErr => ~succeeded

----------------------------------------------------------------------------
\* the InitID an ETLogbookWriteCommit or ETDatasetDeleteAll event is about
UpdatedInitID(call) == IF call.op = ETDatasetDeleteAll THEN call.arg ELSE call.arg.InitID

\* the entries of a root that are not about the InitID x, in order
EntriesBeside(root, x) == SelectSeq(root.Refs, LAMBDA r : r.InitID # x)

\* C34: handling ETLogbookWriteCommit or ETDatasetDeleteAll for InitID x
\* leaves the Users list and every Refs entry with another InitID as they
\* were and in the same order; when no entry has InitID x the cache contents
\* are unchanged
C34_UpdateTouchesOneEntry ==
    [][(Handled(ETLogbookWriteCommit) \/ Handled(ETDatasetDeleteAll)) =>
          LET x == UpdatedInitID(last')
          IN  /\ Root'.Users = Root.Users
              /\ EntriesBeside(Root', x) = EntriesBeside(Root, x)
              /\ ~Cached(Root, x) => Root' = Root]_vars

\* ETDatasetDeleteAll was handled for a dataset of a cache that keeps the
\* entry of another dataset and its users
C34_Witness ==
    /\ last.op = ETDatasetDeleteAll
    /\ book[last.arg].status = "Deleted"
    /\ Root.set
    /\ Len(Root.Users) >= 1
    /\ Len(Root.Refs) >= 1
    /\ ~Cached(Root, last.arg)

----------------------------------------------------------------------------
(* Events from two publishers.  Each publisher calls the handler on its own *)
(* goroutine: an invocation reads d.Root when it starts to copy the cache   *)
(* and assigns the root it built when it is done; nothing in Dscache keeps  *)
(* another invocation from running in between.                              *)

\* the InitID an event is about
InitIDOfEvent(e) == IF e.Type = ETDatasetDeleteAll THEN e.Payload ELSE e.Payload.InitID

\* the handler starts on the publisher's goroutine: it reads the root and
\* builds its outcome from it.  A publisher publishes the events of one
\* dataset one after the other
BeginHandler(e) ==
    /\ Cardinality(pending) < MaxPending
    /\ \A h \in pending : InitIDOfEvent(h.e) # InitIDOfEvent(e)
    /\ \E o \in handler(Root, CreateNewEnabled, e) :
           pending' = pending \cup {[e |-> e, o |-> o]}

\* the invocation ends: an update that built a root assigns it and saves
CompleteHandler(h) ==
    /\ Running
    /\ h \in pending
    /\ pending' = pending \ {h}
    /\ \E sv \in (IF h.o.saves THEN save(Filename, file, h.o.Root)
                  ELSE {[file |-> file, err |-> NoErr]}) :
           /\ Root' = IF h.o.saves THEN h.o.Root ELSE Root
           /\ file' = sv.file
           /\ last' = [op |-> h.e.Type, arg |-> h.e.Payload,
                       err |-> IF h.o.err = "save" THEN sv.err ELSE h.o.err,
                       out |-> handlerReturn(h.o.err)]
    /\ UNCHANGED <<book, CreateNewEnabled, Filename, ProfileIDToUsername, reader,
                   peers, workflows, listener, shutdown>>

\* Logbook.WriteDatasetInit and WriteCommit of a publisher whose handler
\* invocation is left in flight
ConcurrentInit(username, name) ==
    /\ Running
    /\ HasFreshInitID(book)
    /\ NameFree(book, username, name)
    /\ LET id == FreshInitID(book)
       IN  /\ book' = [book EXCEPT ![id] =
                  [status |-> "Active", Username |-> username, PrettyName |-> name,
                   commits |-> 0]]
           /\ BeginHandler(Event(ETDatasetNameInit, "dsref.VersionInfo",
                  [ZeroVersionInfo EXCEPT
                      !.InitID = id,
                      !.ProfileID = ProfileIDOf(username),
                      !.Username = username,
                      !.Name = name]))
    /\ UNCHANGED <<Root, CreateNewEnabled, Filename, file, ProfileIDToUsername, last, reader,
                   peers, workflows, listener, shutdown>>

ConcurrentCommit(id) ==
    /\ Running
    /\ Live(book, id)
    /\ book[id].commits < MaxCommits
    /\ book' = [book EXCEPT ![id].commits = @ + 1]
    /\ BeginHandler(Event(ETLogbookWriteCommit, "dsref.VersionInfo",
           CommitInfo(id, book[id].commits + 1)))
    /\ UNCHANGED <<Root, CreateNewEnabled, Filename, file, ProfileIDToUsername, last, reader,
                   peers, workflows, listener, shutdown>>

\* datasets of one user, so that every update copies all entries
NextHandlers ==
    \/ \E n \in Names : ConcurrentInit("alice", n)
    \/ \E id \in InitIDs : ConcurrentCommit(id)
    \/ \E h \in pending : CompleteHandler(h)

SpecHandlers == Init /\ [][NextHandlers]_vars

\* C35: when handler invocations for different InitIDs have run concurrently
\* and all have completed, the cache reflects every update: each dataset of
\* the logbook has its entry, with the commit count of its log
C35_NoLostUpdate ==
    (CreateNewEnabled /\ pending = {}) =>
        \A id \in InitIDs :
            Live(book, id) =>
                \E i \in RefIndexes :
                    /\ Root.Refs[i].InitID = id
                    /\ Root.Refs[i].TopIndex = book[id].commits

----------------------------------------------------------------------------
(* The results of HTTPClient.put, get and del.  What http.DefaultClient.Do  *)
(* returns is an input: rt is [err, res], res the nil response or           *)
(* [StatusCode, Body, Header], Body what ioutil.ReadAll makes of it.        *)

NilResponse == [StatusCode |-> 0, Body |-> [data |-> "", err |-> NoErr], Header |-> NoHeaders]
ErrDial == "dial tcp: connection refused"
ErrUnexpectedEOF == "unexpected EOF"

\* the status codes a server answers with: 408 is Request Timeout, 500 is
\* Internal Server Error
StatusCodes == {StatusOK, StatusBadRequest, StatusNotFound, 408, 500}

\* http.DefaultClient.Do: an error and no response, or a response
RoundTrips ==
    {[err |-> ErrDial, res |-> NilResponse]}
    \cup [err : {NoErr},
          res : [StatusCode : StatusCodes,
                 Body : {[data |-> "", err |-> NoErr],
                         [data |-> "log not found", err |-> NoErr],
                         [data |-> "log n", err |-> ErrUnexpectedEOF]},
                 Header : {NoHeaders, addAuthorHTTPHeaders(ServerAuthor)}]]

\* the result [err, requests] of a call that reads res.StatusCode of a nil response
NilDereference == [err |-> Panic, requests |-> 1]

\* HTTPClient.put: Do's error is not looked at before res.StatusCode is read;
\* the err returned after a failed ReadAll is the one of Do
HTTPClientPut(rt) ==
    IF rt.res = NilResponse
    THEN NilDereference
    ELSE IF rt.res.StatusCode # StatusOK
    THEN IF rt.res.Body.err = NoErr
         THEN [err |-> rt.res.Body.data, requests |-> 1]
         ELSE [err |-> rt.err, requests |-> 1]
    ELSE [err |-> NoErr, requests |-> 1]

\* HTTPClient.get
HTTPClientGet(rt) ==
    IF rt.err # NoErr
    THEN [err |-> rt.err, requests |-> 1]
    ELSE IF rt.res.StatusCode # StatusOK
    THEN IF rt.res.Body.err = NoErr
         THEN [err |-> rt.res.Body.data, requests |-> 1]
         ELSE [err |-> rt.err, requests |-> 1]
    ELSE [err |-> senderFromHTTPHeaders(rt.res.Header).err, requests |-> 1]

\* HTTPClient.del
HTTPClientDel(rt) ==
    IF rt.res = NilResponse
    THEN NilDereference
    ELSE IF rt.res.StatusCode # StatusOK /\ rt.res.Body.err = NoErr
    THEN [err |-> rt.res.Body.data, requests |-> 1]
    ELSE [err |-> rt.err, requests |-> 1]

ClientCall(method, rt) ==
    /\ Running
    /\ LET o == CASE method = "PUT" -> HTTPClientPut(rt)
                  [] method = "GET" -> HTTPClientGet(rt)
                  [] method = "DELETE" -> HTTPClientDel(rt)
       IN  last' = [op |-> "HTTPClient", arg |-> [Method |-> method, rt |-> rt],
                    err |-> o.err, out |-> o.requests]
    /\ UNCHANGED <<node, outside>>

NextClient == \E method \in {"PUT", "GET", "DELETE"}, rt \in RoundTrips : ClientCall(method, rt)

SpecClient == Init /\ [][NextClient]_vars

\* C36: HTTPClient put, get and del return a non-nil error, and do not panic,
\* whenever the round trip fails or the server answers with a status other
\* than 200, also when the body of the answer cannot be read; they return a
\* nil error only for a 200 response; each call issues exactly one request
C36_ClientErrorsOnFailure ==
    last.op = "HTTPClient" =>
        LET rt == last.arg.rt
            failed == rt.err # NoErr \/ rt.res.StatusCode # StatusOK
        IN  /\ last.err # Panic
            /\ failed => last.err # NoErr
            /\ last.err = NoErr => (rt.err = NoErr /\ rt.res.StatusCode = StatusOK)
            /\ last.out = 1

----------------------------------------------------------------------------
(* The FSI handlers of the API.  A request is [Method, Path, failing]: Path *)
(* is the part of the URL after the route prefix, failing says whether the  *)
(* lib method the handler reaches returns an error.  A handler yields       *)
(* [response, calls], calls the lib methods it invoked.                     *)

\* DatasetRefFromPath: [err, Path], Path the version the reference names
DatasetRefFromPath(path) ==
    CASE path = "/alice/world_bank" -> [err |-> NoErr, Path |-> ""]
      [] path = "/alice/world_bank/at/hash/p1" -> [err |-> NoErr, Path |-> "/hash/p1"]
      [] OTHER -> [err |-> "invalid reference", Path |-> ""]

\* FSIHandlers.statusHandler
statusHandler(r) ==
    LET ref == DatasetRefFromPath(r.Path)
        method == IF ref.Path # "" THEN "StoredStatus" ELSE "AliasStatus"
    IN  IF ref.err # NoErr
        THEN [response |-> "bad request", calls |-> <<>>]
        ELSE IF r.failing
        THEN [response |-> "internal server error", calls |-> <<method>>]
        ELSE [response |-> "ok", calls |-> <<method>>]

\* FSIHandlers.initHandler
initHandler(r) ==
    IF r.failing
    THEN [response |-> "bad request", calls |-> <<"InitDataset">>]
    ELSE [response |-> "ok", calls |-> <<"InitDataset">>]

\* FSIHandlers.checkoutHandler
checkoutHandler(r) ==
    LET ref == DatasetRefFromPath(r.Path)
    IN  IF ref.err # NoErr
        THEN [response |-> "bad request", calls |-> <<>>]
        ELSE IF r.failing
        THEN [response |-> "internal server error", calls |-> <<"Checkout">>]
        ELSE [response |-> "ok", calls |-> <<"Checkout">>]

\* readOnlyResponse, util.EmptyOkHandler and util.NotFoundHandler
ReadOnlyResponse == [response |-> "read-only", calls |-> <<>>]
EmptyOk == [response |-> "empty ok", calls |-> <<>>]
NotFound == [response |-> "not found", calls |-> <<>>]

\* StatusHandler that does not look at ReadOnly
StatusHandler_NoReadOnlyCheck(readOnly, r) ==
    CASE r.Method = "OPTIONS" -> EmptyOk
      [] r.Method = "GET" -> statusHandler(r)
      [] OTHER -> NotFound

\* FSIHandlers.StatusHandler
StatusHandler(readOnly, r) ==
    IF readOnly
    THEN ReadOnlyResponse
    ELSE CASE r.Method = "OPTIONS" -> EmptyOk
           [] r.Method = "GET" -> statusHandler(r)
           [] OTHER -> NotFound

\* FSIHandlers.InitHandler
InitHandler(readOnly, r) ==
    IF readOnly
    THEN ReadOnlyResponse
    ELSE CASE r.Method = "OPTIONS" -> EmptyOk
           [] r.Method = "POST" -> initHandler(r)
           [] OTHER -> NotFound

\* FSIHandlers.CheckoutHandler
CheckoutHandler(readOnly, r) ==
    IF readOnly
    THEN ReadOnlyResponse
    ELSE CASE r.Method = "OPTIONS" -> EmptyOk
           [] r.Method = "POST" -> checkoutHandler(r)
           [] OTHER -> NotFound

FSIRequests ==
    [Method : {"GET", "POST", "OPTIONS", "PUT", "DELETE"},
     Path : {"/alice/world_bank", "/alice/world_bank/at/hash/p1", "/alice"},
     failing : BOOLEAN]

\* NewFSIHandlers(inst, readOnly), and one request served by one of its handlers
ServeFSI(route, readOnly, r) ==
    /\ Running
    /\ LET o == CASE route = "/status" -> StatusHandler(readOnly, r)
                  [] route = "/init" -> InitHandler(readOnly, r)
                  [] route = "/checkout" -> CheckoutHandler(readOnly, r)
       IN  last' = [op |-> "FSI", arg |-> [route |-> route, ReadOnly |-> readOnly, r |-> r],
                    err |-> NoErr, out |-> o]
    /\ UNCHANGED <<node, outside>>

NextFSI ==
    \E route \in {"/status", "/init", "/checkout"}, readOnly \in BOOLEAN, r \in FSIRequests :
        ServeFSI(route, readOnly, r)

SpecFSI == Init /\ [][NextFSI]_vars

\* the lib methods a served request invoked
Invoked == {last.out.calls[i] : i \in 1..Len(last.out.calls)}

\* C37: with ReadOnly set, StatusHandler, InitHandler and CheckoutHandler
\* answer every request, whatever its method, with the read-only response
\* and invoke none of StoredStatus, AliasStatus, InitDataset and Checkout;
\* with ReadOnly unset, InitDataset and Checkout are invoked only for POST
\* and StoredStatus and AliasStatus only for GET
C37_ReadOnlyInvokesNothing ==
    last.op = "FSI" =>
        /\ last.arg.ReadOnly => (last.out = ReadOnlyResponse /\ Invoked = {})
        /\ ~last.arg.ReadOnly =>
               /\ Invoked \cap {"InitDataset", "Checkout"} # {} => last.arg.r.Method = "POST"
               /\ Invoked \cap {"StoredStatus", "AliasStatus"} # {} => last.arg.r.Method = "GET"

\* a read-only instance answered a GET of the status of a stored version
\* with the read-only response
C37_Witness ==
    /\ last.op = "FSI"
    /\ last.arg.ReadOnly
    /\ last.arg.route = "/status"
    /\ last.arg.r = [Method |-> "GET", Path |-> "/alice/world_bank/at/hash/p1", failing |-> FALSE]
    /\ last.out = ReadOnlyResponse

----------------------------------------------------------------------------
(* The shutdown of MemRepo.  NewMemRepo starts two goroutines: the first    *)
(* receives from the filesystem's Done channel, stores the filesystem's     *)
(* DoneErr in doneErr and calls doneWg.Done; the second waits for doneWg    *)
(* and closes doneCh.  pc is the position of the first goroutine.           *)

ErrContextCanceled == "context canceled"

\* the filesystem shuts down: it sets its DoneErr and closes its Done channel
CloseFilesystem(err) ==
    /\ ~shutdown.fsDone
    /\ shutdown' = [shutdown EXCEPT !.fsDone = TRUE, !.fsDoneErr = err]
    /\ UNCHANGED <<node, last, peers, workflows, listener, pending>>

\* first goroutine: <-fs.Done()
AwaitFsDone ==
    /\ shutdown.pc = "waiting"
    /\ shutdown.fsDone
    /\ shutdown' = [shutdown EXCEPT !.pc = "woken"]
    /\ UNCHANGED <<node, last, peers, workflows, listener, pending>>

\* first goroutine: mr.doneErr = fs.DoneErr()
StoreDoneErr ==
    /\ shutdown.pc = "woken"
    /\ shutdown' = [shutdown EXCEPT !.doneErr = shutdown.fsDoneErr, !.pc = "stored"]
    /\ UNCHANGED <<node, last, peers, workflows, listener, pending>>

\* first goroutine: mr.doneWg.Done()
DoneWgDone ==
    /\ shutdown.pc = "stored"
    /\ shutdown' = [shutdown EXCEPT !.doneWg = shutdown.doneWg - 1, !.pc = "returned"]
    /\ UNCHANGED <<node, last, peers, workflows, listener, pending>>

\* second goroutine that closes doneCh without waiting for doneWg
CloseDoneCh_NoWait ==
    /\ shutdown.doneCh = "open"
    /\ shutdown' = [shutdown EXCEPT !.doneCh = "closed"]
    /\ UNCHANGED <<node, last, peers, workflows, listener, pending>>

\* second goroutine: mr.doneWg.Wait(); close(mr.doneCh)
CloseDoneCh ==
    /\ shutdown.doneWg = 0
    /\ shutdown.doneCh = "open"
    /\ shutdown' = [shutdown EXCEPT !.doneCh = "closed"]
    /\ UNCHANGED <<node, last, peers, workflows, listener, pending>>

\* a caller receives from Done() and then asks DoneErr()
ObserveDone ==
    /\ Running
    /\ shutdown.doneCh = "closed"
    /\ last' = [op |-> "Done", arg |-> <<>>, err |-> shutdown.doneErr, out |-> "closed"]
    /\ UNCHANGED <<node, outside>>

\* while the repo shuts down, callers connect to peers by address
NextShutdown ==
    \/ \E p \in {q \in PeerConnectionParams : q.Peername = "" /\ q.ProfileID = ""},
          net \in NetworkAnswers : DoConnectToPeer(p, net)
    \/ \E err \in {NoErr, ErrContextCanceled} : CloseFilesystem(err)
    \/ AwaitFsDone
    \/ StoreDoneErr
    \/ DoneWgDone
    \/ CloseDoneCh
    \/ ObserveDone

\* a goroutine that can run is run
SpecShutdown ==
    /\ Init
    /\ [][NextShutdown]_vars
    /\ WF_vars(AwaitFsDone)
    /\ WF_vars(StoreDoneErr)
    /\ WF_vars(DoneWgDone)
    /\ WF_vars(CloseDoneCh)

\* C38: MemRepo.Done() is closed only after the filesystem's Done channel
\* has fired, and once that has fired Done() is eventually closed; whenever
\* Done() is closed, and whenever a caller has seen it closed, DoneErr()
\* returns the filesystem's DoneErr()
C38_DoneFollowsFilesystem ==
    /\ [](shutdown.doneCh = "closed" =>
            /\ shutdown.fsDone
            /\ shutdown.doneErr = shutdown.fsDoneErr
            /\ last.op = "Done" => last.err = shutdown.fsDoneErr)
    /\ (shutdown.fsDone ~> shutdown.doneCh = "closed")

\* the filesystem shut down with an error, and a caller that saw Done()
\* closed got that error from DoneErr()
C38_Witness ==
    /\ shutdown.fsDone
    /\ shutdown.fsDoneErr = ErrContextCanceled
    /\ shutdown.doneCh = "closed"
    /\ last.op = "Done"
    /\ last.err = ErrContextCanceled

----------------------------------------------------------------------------
(* ListRefs after the cache changed.  DoListRefs leaves Root as it found    *)
(* it, so in a state whose last call is ListRefs, Root is the root the call *)
(* listed.                                                                  *)

\* the username the Users list of root associates with a profile ID, "" when
\* it associates none
UsernameOf(root, profileID) ==
    LET users == ensureProToUserMap(root, NilMap).m
    IN  IF profileID \in DOMAIN users THEN users[profileID] ELSE ""

\* C39: ListRefs reports for every entry of Refs the username the current
\* Users list associates with the ProfileID of the entry, also when the
\* cache was replaced by Assign or by an event update after an earlier
\* ListRefs; no read leaves state behind that makes a later read return
\* outdated data
C39_ListRefsUsesCurrentUsers ==
    (last.op = "ListRefs" /\ last.err = NoErr) =>
        /\ Len(last.out) = Len(Root.Refs)
        /\ \A i \in 1..Len(Root.Refs) :
               last.out[i].Peername = UsernameOf(Root, Root.Refs[i].ProfileID)

----------------------------------------------------------------------------
(* A cache that is not enabled: the bus events of the logbook reach a       *)
(* Dscache that has a filename, no root, and CreateNewEnabled as built.     *)

NextEvents ==
    \/ \E u \in {"alice", "bob"}, n \in Names : WriteDatasetInit(u, n)
    \/ \E id \in InitIDs : WriteCommit(id)
    \/ \E id \in InitIDs, n \in Names : WriteRename(id, n)
    \/ \E id \in InitIDs : WriteDeleteAll(id)
    \/ \E id \in InitIDs : WriteLink(id)

SpecEvents == InitFile /\ [][NextEvents]_vars

\* C40: a cache that starts empty with CreateNewEnabled false stays empty
\* under every sequence of ETDatasetNameInit, ETLogbookWriteCommit,
\* ETDatasetDeleteAll, ETDatasetRename and ETDatasetCreateLink: Root stays
\* unset and no file is written
C40_DisabledCacheStaysEmpty ==
    ~CreateNewEnabled =>
        /\ Root = NilRoot
        /\ file = NoFile
        /\ last.op \in EventTypes => last.err \in {NoErr, ErrNoDscache}

\* with CreateNewEnabled false one dataset was created and committed to,
\* another was created and deleted, and the cache is still empty
C40_Witness ==
    /\ ~CreateNewEnabled
    /\ last.op = ETDatasetDeleteAll
    /\ \E id \in InitIDs : book[id].status = "Deleted"
    /\ \E id \in InitIDs : book[id].commits > 0
    /\ Root = NilRoot
    /\ file = NoFile

====
